---- MODULE Spec2Model ----
(***************************************************************************)
(* Kalah/Mancala engine (KalahEngine): board, stores, turn, game-over and  *)
(* the makeMove algorithm (sowing, capture, end-of-game sweep, turn        *)
(* switch).                                                                *)
(***************************************************************************)
EXTENDS Integers, Sequences, FiniteSets, TLC

(* ----------------------------- bounds ---------------------------------- *)
\* engines are constructed with pitsPerPlayer in 1..MaxPits
MaxPits == 3
\* ... and seedsPerPit in 1..MaxSeeds
MaxSeeds == 4
\* ... and at most MaxSide seeds on each side
MaxSide == 6
\* the engine of the long games has two pits per side and HeavySeeds seeds
\* per pit: 48 seeds as in the default game, so that a store can reach the
\* literal of _checkAndHandleGameOver
HeavySeeds == 12

(* ------------------------- program constants --------------------------- *)
\* the literal of _checkAndHandleGameOver
WinThreshold == 25

(* ------------------------------ state ---------------------------------- *)
VARIABLES
    pitsPerPlayer,  \* this.pitsPerPlayer
    seedsPerPit,    \* the constructor's seedsPerPit option
    board,          \* this.board, indexed 0..totalPits-1
    stores,         \* this.stores, indexed 0..1
    currentPlayer,  \* this.currentPlayer
    gameOver,       \* this.gameOver
    moveNumber,     \* this.moveNumber
    arg,            \* the pitIndex of the latest makeMove call
    result,         \* its return value: <<>> for null, <<moveDetails>> otherwise
    mid,            \* board and stores of the latest valid move after the
                    \* sowing loop (sown) and after the capture step (capt)
    op,             \* the latest operation called
    refs,           \* identities of the arrays this.board and this.stores
    clone,          \* <<>> or <<the engine made by clone()>>
    snap,           \* <<>> or <<the object returned by the latest getState()>>
    agent,          \* <<>> or the fields of the QLearningAgent
    call,           \* the latest call on the agent, with its inputs and result
    remembered,     \* number of remember() calls so far
    target,         \* <<>> or the latest target computation of replay()
    saved,          \* <<>> or <<the contents of model.json>>
    trainer,        \* <<>> or the fields of the Trainer and its current run
    experiences,    \* the experiences recorded in the current episode
    evalRun,        \* <<>> or the locals of the latest evaluate() call
    ui              \* <<>> or the fields of the KalahUI page and its RLAgent

vars == <<pitsPerPlayer, seedsPerPit, board, stores, currentPlayer, gameOver,
          moveNumber, arg, result, mid, op, refs, clone, snap,
          agent, call, remembered, target, saved, trainer, experiences,
          evalRun, ui>>

\* the objects around the engine under play
objVars == <<op, refs, clone, snap>>

\* the learning agent and its latest call
agentVars == <<agent, call, remembered>>

\* the trainer, the model file, the latest target computation and the page
trainVars == <<target, saved, trainer, experiences, evalRun, ui>>

engine == <<board, stores, currentPlayer, gameOver, moveNumber>>

totalPits == pitsPerPlayer * 2

totalSeeds == totalPits * seedsPerPit

Pits(n) == 0 .. (2 * n - 1)

RECURSIVE SumRange(_, _, _)
\* board.slice(lo, hi).reduce((a, b) => a + b, 0)
SumRange(b, lo, hi) == IF lo >= hi THEN 0 ELSE b[lo] + SumRange(b, lo + 1, hi)

\* seeds on one player's side of a board
SideSeeds(b, n, player) == SumRange(b, player * n, player * n + n)

(* --------------------------- constructor ------------------------------- *)
NewEngine(n, s) ==
    /\ pitsPerPlayer = n
    /\ seedsPerPit = s
    /\ board = [i \in Pits(n) |-> s]
    /\ stores = [i \in 0 .. 1 |-> 0]
    /\ currentPlayer = 0
    /\ gameOver = FALSE
    /\ moveNumber = 0

(* ------------------------ getValidMoves / isValidMove ------------------ *)
RECURSIVE ValidFrom(_, _, _)
ValidFrom(b, i, endPit) ==
    IF i >= endPit THEN <<>>
    ELSE (IF b[i] > 0 THEN <<i>> ELSE <<>>) \o ValidFrom(b, i + 1, endPit)

\* the loop stops one pit short of the side's end
GetValidMoves_SkipsLastPit ==
    IF gameOver THEN <<>>
    ELSE ValidFrom(board, currentPlayer * pitsPerPlayer,
                   currentPlayer * pitsPerPlayer + pitsPerPlayer - 1)

GetValidMoves ==
    IF gameOver THEN <<>>
    ELSE ValidFrom(board, currentPlayer * pitsPerPlayer,
                   currentPlayer * pitsPerPlayer + pitsPerPlayer)

\* the empty-pit test is missing
IsValidMove_IgnoresEmpty(pitIndex) ==
    IF gameOver THEN FALSE
    ELSE IF \/ pitIndex < currentPlayer * pitsPerPlayer
            \/ pitIndex >= currentPlayer * pitsPerPlayer + pitsPerPlayer
         THEN FALSE
    ELSE TRUE

IsValidMove(pitIndex) ==
    IF gameOver THEN FALSE
    ELSE IF \/ pitIndex < currentPlayer * pitsPerPlayer
            \/ pitIndex >= currentPlayer * pitsPerPlayer + pitsPerPlayer
         THEN FALSE
    ELSE IF board[pitIndex] = 0 THEN FALSE
    ELSE TRUE

(* ------------------------------ makeMove ------------------------------- *)
StoreOf(player) == <<"Store", player>>
PitOf(i) == <<"pit", i>>

\* only player 0's store is ever served
ShouldDropInStore_Player0Only(player, currentPit, n) ==
    player = 0 /\ currentPit = n

\* the mover's store is served when the walk reaches the first pit of the
\* other side
ShouldDropInStore(player, currentPit, n) ==
    \/ player = 0 /\ currentPit = n
    \/ player = 1 /\ currentPit = 0

\* the starting pit is stepped over on every round
SkipsStart_EveryRound(currentPit, pitIndex, firstRound) ==
    currentPit = pitIndex

\* first-round skip of the starting pit
SkipsStart(currentPit, pitIndex, firstRound) ==
    currentPit = pitIndex /\ firstRound

\* the side of the landing pit is not looked at
LastPitWasEmpty_AnySide(left, own, wasEmpty) == left = 0 /\ wasEmpty

\* seeds === 0 && playerPits.includes(currentPit) && wasEmpty
LastPitWasEmpty(left, own, wasEmpty) == left = 0 /\ own /\ wasEmpty

RECURSIVE SowLoop(_, _, _, _)
\* the while (seeds > 0) loop; w holds the loop's locals and the part of the
\* engine it writes
SowLoop(w, player, pitIndex, n) ==
    IF w.seeds <= 0 THEN w
    ELSE
      LET cp == (w.currentPit + 1) % (2 * n) IN
      IF SkipsStart(cp, pitIndex, w.firstRound)
      THEN SowLoop([w EXCEPT !.currentPit = cp, !.firstRound = FALSE],
                   player, pitIndex, n)
      ELSE
        LET drop == ShouldDropInStore(player, cp, n) /\ w.seeds > 0
            w1 == IF drop
                  THEN [w EXCEPT !.currentPit = cp,
                                 !.stores[player] = @ + 1,
                                 !.seeds = @ - 1,
                                 !.path = Append(@, StoreOf(player))]
                  ELSE [w EXCEPT !.currentPit = cp]
        IN
        IF drop /\ w1.seeds = 0
        THEN [w1 EXCEPT !.landedInOwnStore = TRUE]
        ELSE
          IF w1.seeds > 0
          THEN LET wasEmpty == w1.board[cp] = 0
                   own == cp \in (player * n) .. (player * n + n - 1)
                   left == w1.seeds - 1
               IN SowLoop([w1 EXCEPT !.board[cp] = @ + 1,
                                     !.seeds = left,
                                     !.path = Append(@, PitOf(cp)),
                                     !.lastPitWasEmpty =
                                         LastPitWasEmpty(left, own, wasEmpty)],
                          player, pitIndex, n)
          ELSE SowLoop(w1, player, pitIndex, n)

Sow(b, st, player, pitIndex, n) ==
    SowLoop([board |-> [b EXCEPT ![pitIndex] = 0],
             stores |-> st,
             seeds |-> b[pitIndex],
             currentPit |-> pitIndex,
             firstRound |-> TRUE,
             lastPitWasEmpty |-> FALSE,
             landedInOwnStore |-> FALSE,
             path |-> <<>>],
            player, pitIndex, n)

\* the pit with the same offset on the other side, not the facing one
OppositePit_SameOffset(currentPit, n) == (currentPit + n) % (2 * n)

OppositePit(currentPit, n) == 2 * n - 1 - currentPit

\* the landing seed is removed from the pit but not added to the store
Capture_DropsLandingSeed(w, player, n) ==
    LET oppositePit == OppositePit(w.currentPit, n) IN
    IF w.lastPitWasEmpty /\ w.board[oppositePit] > 0
    THEN [board |-> [w.board EXCEPT ![oppositePit] = 0, ![w.currentPit] = 0],
          stores |-> [w.stores EXCEPT ![player] = @ + w.board[oppositePit]],
          captured |-> w.board[oppositePit]]
    ELSE [board |-> w.board, stores |-> w.stores, captured |-> 0]

\* the capture step on the outcome w of the sowing loop
Capture(w, player, n) ==
    LET oppositePit == OppositePit(w.currentPit, n) IN
    IF w.lastPitWasEmpty /\ w.board[oppositePit] > 0
    THEN [board |-> [w.board EXCEPT ![oppositePit] = 0, ![w.currentPit] = 0],
          stores |-> [w.stores EXCEPT
                        ![player] = @ + w.board[oppositePit] + w.board[w.currentPit]],
          captured |-> w.board[oppositePit] + w.board[w.currentPit]]
    ELSE [board |-> w.board, stores |-> w.stores, captured |-> 0]

\* the store test of _checkAndHandleGameOver
StoreWins(st) == st[0] >= WinThreshold \/ st[1] >= WinThreshold

\* the game goes on until both sides are empty
SideEmpty_BothSides(b, n) == SideSeeds(b, n, 0) = 0 /\ SideSeeds(b, n, 1) = 0

\* the empty-side test of _checkAndHandleGameOver
SideEmpty(b, n) == SideSeeds(b, n, 0) = 0 \/ SideSeeds(b, n, 1) = 0

\* each store collects the seeds of the other side
Sweep_OtherSide(c, n) ==
    [board |-> [i \in Pits(n) |-> 0],
     stores |-> [i \in 0 .. 1 |-> c.stores[i] + SideSeeds(c.board, n, 1 - i)],
     gameOver |-> TRUE]

\* both branches collect each side into its own store and zero the board
Sweep(c, n) ==
    [board |-> [i \in Pits(n) |-> 0],
     stores |-> [i \in 0 .. 1 |-> c.stores[i] + SideSeeds(c.board, n, i)],
     gameOver |-> TRUE]

\* a store win ends the game without collecting the board
CheckAndHandleGameOver_NoSweepOnWin(c, n) ==
    IF StoreWins(c.stores)
    THEN [board |-> c.board, stores |-> c.stores, gameOver |-> TRUE]
    ELSE IF SideEmpty(c.board, n) THEN Sweep(c, n)
    ELSE [board |-> c.board, stores |-> c.stores, gameOver |-> FALSE]

CheckAndHandleGameOver(c, n) ==
    IF StoreWins(c.stores) THEN Sweep(c, n)
    ELSE IF SideEmpty(c.board, n) THEN Sweep(c, n)
    ELSE [board |-> c.board, stores |-> c.stores, gameOver |-> FALSE]

\* the turn passes even after a store landing
NextPlayer_AlwaysSwitches(player, landedInOwnStore) == 1 - player

\* who moves next
NextPlayer(player, landedInOwnStore) ==
    IF ~landedInOwnStore THEN 1 - player ELSE player

\* the move counter is advanced before the validity test
MakeMoveInvalid_CountsCall(pitIndex) ==
    /\ ~IsValidMove(pitIndex)
    /\ arg' = pitIndex
    /\ result' = <<>>
    /\ moveNumber' = moveNumber + 1
    /\ UNCHANGED <<pitsPerPlayer, seedsPerPit, board, stores, currentPlayer,
                   gameOver, mid>>

MakeMoveInvalid(pitIndex) ==
    /\ ~IsValidMove(pitIndex)
    /\ arg' = pitIndex
    /\ result' = <<>>
    /\ UNCHANGED <<pitsPerPlayer, seedsPerPit, engine, mid>>

MakeMoveValid(pitIndex) ==
    /\ IsValidMove(pitIndex)
    /\ LET n == pitsPerPlayer
           w == Sow(board, stores, currentPlayer, pitIndex, n)
           c == Capture(w, currentPlayer, n)
           g == CheckAndHandleGameOver(c, n)
       IN /\ board' = g.board
          /\ stores' = g.stores
          /\ gameOver' = g.gameOver
          /\ currentPlayer' = NextPlayer(currentPlayer, w.landedInOwnStore)
          /\ moveNumber' = moveNumber + 1
          /\ arg' = pitIndex
          /\ result' = << [pitIndex |-> pitIndex,
                           player |-> currentPlayer,
                           moveNumber |-> moveNumber + 1,
                           seedsSown |-> board[pitIndex],
                           captured |-> c.captured,
                           extraTurn |-> w.landedInOwnStore,
                           gameEnded |-> g.gameOver,
                           sowingPath |-> w.path] >>
          /\ mid' = [sown |-> [board |-> w.board, stores |-> w.stores],
                     capt |-> [board |-> c.board, stores |-> c.stores]]
    /\ UNCHANGED <<pitsPerPlayer, seedsPerPit>>

\* callers pass any index, also one before or past the board
MakeMove ==
    \E pitIndex \in -1 .. totalPits :
        MakeMoveInvalid(pitIndex) \/ MakeMoveValid(pitIndex)

NoCall ==
    /\ arg = -1
    /\ result = <<>>
    /\ mid = [sown |-> [board |-> board, stores |-> stores],
              capt |-> [board |-> board, stores |-> stores]]

(* ------------------------------ getWinner ------------------------------ *)
\* equal stores go to player 1
GetWinner_TieToPlayer1 ==
    IF ~gameOver THEN <<-1>>
    ELSE IF stores[0] > stores[1] THEN <<0>>
    ELSE <<1>>

\* <<-1>> in progress, <<0>> or <<1>> the winner, <<>> for null (draw)
GetWinner ==
    IF ~gameOver THEN <<-1>>
    ELSE IF stores[0] > stores[1] THEN <<0>>
    ELSE IF stores[1] > stores[0] THEN <<1>>
    ELSE <<>>

(* ------------------- play from a freshly built engine ------------------ *)
Configs ==
    {c \in (1 .. MaxPits) \X (1 .. MaxSeeds) : c[1] * c[2] <= MaxSide}

\* no agent has been built
NoAgent ==
    /\ agent = <<>>
    /\ call = <<>>
    /\ remembered = 0

\* no trainer has been built, nothing is saved, no target was computed; no
\* page is open
NoTrainer ==
    /\ target = <<>>
    /\ saved = <<>>
    /\ trainer = <<>>
    /\ experiences = <<>>
    /\ evalRun = <<>>
    /\ ui = <<>>

\* one engine, owning its two arrays; no clone and no snapshot yet
NoObjects ==
    /\ op = "new"
    /\ refs = [board |-> 1, stores |-> 2]
    /\ clone = <<>>
    /\ snap = <<>>

Init ==
    /\ \E c \in Configs : NewEngine(c[1], c[2])
    /\ NoCall
    /\ NoObjects
    /\ NoAgent
    /\ NoTrainer

Next ==
    MakeMove /\ UNCHANGED objVars /\ UNCHANGED agentVars /\ UNCHANGED trainVars

Spec == Init /\ [][Next]_vars

\* one pass of a while (!game.gameOver) loop whose policy returns some
\* element of getValidMoves()
ValidMove ==
    /\ \E k \in 1 .. Len(GetValidMoves) : MakeMoveValid(GetValidMoves[k])
    /\ UNCHANGED objVars
    /\ UNCHANGED agentVars
    /\ UNCHANGED trainVars

\* the loop goes on as long as it can: WF_vars(ValidMove), with its
\* ENABLED <<ValidMove>>_vars written as the state predicate it equals,
\* getValidMoves() being not empty (every valid move advances moveNumber)
LoopGoesOn == []<>(Len(GetValidMoves) = 0) \/ []<><<ValidMove>>_vars

SpecGame == Init /\ [][ValidMove]_vars /\ LoopGoesOn

\* the game of 48 seeds on two pits per side
InitHeavy ==
    /\ NewEngine(2, HeavySeeds)
    /\ NoCall
    /\ NoObjects
    /\ NoAgent
    /\ NoTrainer

SpecHeavy == InitHeavy /\ [][Next]_vars

(* --------------- getState, setState, clone and reset ------------------- *)
\* bound: the engines that are cloned, saved and reset have ObjPits pits per
\* side and up to ObjSeeds seeds per pit
ObjPits == 2
ObjSeeds == 2

\* bound: an engine is played for at most ObjMoves moves from its start or
\* from its last reset
ObjMoves == 3

\* seedsPerPit = 4 of reset(seedsPerPit = 4)
ResetDefault == 4

\* identities for arrays; an array no object refers to any more gives its
\* identity back
RefIds == 1 .. 8

HolderRefs(h) == IF h = <<>> THEN {} ELSE {h[1].boardRef, h[1].storesRef}

\* the smallest identity outside used
Fresh(used) == CHOOSE i \in RefIds \ used : \A j \in RefIds \ used : i <= j

\* the object keeps references to the engine's own arrays
GetState_NoCopy(rb, rs) ==
    [board |-> board, stores |-> stores, currentPlayer |-> currentPlayer,
     gameOver |-> gameOver, moveNumber |-> moveNumber,
     winner |-> GetWinner, validMoves |-> GetValidMoves,
     boardRef |-> refs.board, storesRef |-> refs.stores]

\* getState(): [...this.board] and [...this.stores] are new arrays, here with
\* the identities rb and rs
GetState(rb, rs) ==
    [board |-> board, stores |-> stores, currentPlayer |-> currentPlayer,
     gameOver |-> gameOver, moveNumber |-> moveNumber,
     winner |-> GetWinner, validMoves |-> GetValidMoves,
     boardRef |-> rb, storesRef |-> rs]

\* the fields setState(state) writes: copies of the two arrays, with the
\* identities rb and rs, and state.moveNumber || 0
SetStateFields(state, rb, rs) ==
    [board |-> state.board, stores |-> state.stores,
     currentPlayer |-> state.currentPlayer, gameOver |-> state.gameOver,
     moveNumber |-> IF state.moveNumber # 0 THEN state.moveNumber ELSE 0,
     boardRef |-> rb, storesRef |-> rs]

\* a shallow copy: the new engine refers to the arrays of this one
CloneEngine_SharesArrays(rb1, rs1, rb2, rs2) ==
    [pitsPerPlayer |-> pitsPerPlayer, board |-> board, stores |-> stores,
     currentPlayer |-> currentPlayer, gameOver |-> gameOver,
     moveNumber |-> moveNumber,
     boardRef |-> refs.board, storesRef |-> refs.stores]

\* clone(): a new engine of the same pitsPerPlayer, then
\* cloned.setState(this.getState())
CloneEngine(rb1, rs1, rb2, rs2) ==
    LET e == SetStateFields(GetState(rb1, rs1), rb2, rs2)
    IN [pitsPerPlayer |-> pitsPerPlayer, board |-> e.board, stores |-> e.stores,
        currentPlayer |-> e.currentPlayer, gameOver |-> e.gameOver,
        moveNumber |-> e.moveNumber,
        boardRef |-> e.boardRef, storesRef |-> e.storesRef]

\* isValidMove on the engine object e
ValidOn(e, pitIndex) ==
    IF e.gameOver THEN FALSE
    ELSE IF \/ pitIndex < e.currentPlayer * e.pitsPerPlayer
            \/ pitIndex >= e.currentPlayer * e.pitsPerPlayer + e.pitsPerPlayer
         THEN FALSE
    ELSE IF e.board[pitIndex] = 0 THEN FALSE
    ELSE TRUE

\* makeMove on the engine object e, for a valid pitIndex
MoveOn(e, pitIndex) ==
    LET n == e.pitsPerPlayer
        w == Sow(e.board, e.stores, e.currentPlayer, pitIndex, n)
        c == Capture(w, e.currentPlayer, n)
        g == CheckAndHandleGameOver(c, n)
    IN [e EXCEPT !.board = g.board,
                 !.stores = g.stores,
                 !.gameOver = g.gameOver,
                 !.currentPlayer = NextPlayer(e.currentPlayer, w.landedInOwnStore),
                 !.moveNumber = e.moveNumber + 1]

\* makeMove writes into the arrays it holds: every object that refers to the
\* array r.board or r.stores sees the new contents b and st
Written(h, r, b, st) ==
    IF h = <<>> THEN h
    ELSE << [h[1] EXCEPT
               !.board = IF h[1].boardRef = r.board THEN b ELSE @,
               !.stores = IF h[1].storesRef = r.stores THEN st ELSE @] >>

\* an operation other than makeMove on the engine under play: there is no
\* makeMove call to describe
NotAMove ==
    /\ arg' = -1
    /\ result' = <<>>
    /\ mid' = [sown |-> [board |-> board', stores |-> stores'],
               capt |-> [board |-> board', stores |-> stores']]

\* makeMove on the engine under play
MainMove ==
    /\ moveNumber < ObjMoves
    /\ MakeMove
    /\ op' = "makeMove"
    /\ refs' = refs
    /\ clone' = Written(clone, refs, board', stores')
    /\ snap' = Written(snap, refs, board', stores')
    /\ UNCHANGED agentVars
    /\ UNCHANGED trainVars

\* clone()
Clone ==
    /\ clone = <<>>
    /\ LET rb1 == Fresh({refs.board, refs.stores} \cup HolderRefs(snap))
           rs1 == Fresh({refs.board, refs.stores, rb1} \cup HolderRefs(snap))
           rb2 == Fresh({refs.board, refs.stores, rb1, rs1} \cup HolderRefs(snap))
           rs2 == Fresh({refs.board, refs.stores, rb1, rs1, rb2} \cup HolderRefs(snap))
       IN clone' = << CloneEngine(rb1, rs1, rb2, rs2) >>
    /\ op' = "clone"
    /\ UNCHANGED <<pitsPerPlayer, seedsPerPit, engine, refs, snap>>
    /\ NotAMove
    /\ UNCHANGED agentVars
    /\ UNCHANGED trainVars

\* makeMove on the clone
CloneMove ==
    /\ clone # <<>>
    /\ clone[1].moveNumber < ObjMoves
    /\ \E pitIndex \in -1 .. totalPits :
         LET c == clone[1]
             r == [board |-> c.boardRef, stores |-> c.storesRef]
         IN IF ValidOn(c, pitIndex)
            THEN LET c2 == MoveOn(c, pitIndex)
                 IN /\ clone' = <<c2>>
                    /\ board' = IF refs.board = c.boardRef THEN c2.board ELSE board
                    /\ stores' = IF refs.stores = c.storesRef THEN c2.stores ELSE stores
                    /\ snap' = Written(snap, r, c2.board, c2.stores)
            ELSE UNCHANGED <<clone, board, stores, snap>>
    /\ op' = "cloneMove"
    /\ UNCHANGED <<pitsPerPlayer, seedsPerPit, currentPlayer, gameOver,
                   moveNumber, refs>>
    /\ NotAMove
    /\ UNCHANGED agentVars
    /\ UNCHANGED trainVars

\* getState(), its result kept by the caller
GetStateCall ==
    /\ LET rb == Fresh({refs.board, refs.stores} \cup HolderRefs(clone))
           rs == Fresh({refs.board, refs.stores, rb} \cup HolderRefs(clone))
       IN snap' = << GetState(rb, rs) >>
    /\ op' = "getState"
    /\ UNCHANGED <<pitsPerPlayer, seedsPerPit, engine, refs, clone>>
    /\ NotAMove
    /\ UNCHANGED agentVars
    /\ UNCHANGED trainVars

\* setState(state) with the object the caller kept
SetStateCall ==
    /\ snap # <<>>
    /\ LET used == {refs.board, refs.stores} \cup HolderRefs(clone) \cup HolderRefs(snap)
           rb == Fresh(used)
           rs == Fresh(used \cup {rb})
           e == SetStateFields(snap[1], rb, rs)
       IN /\ board' = e.board
          /\ stores' = e.stores
          /\ currentPlayer' = e.currentPlayer
          /\ gameOver' = e.gameOver
          /\ moveNumber' = e.moveNumber
          /\ refs' = [board |-> e.boardRef, stores |-> e.storesRef]
    /\ op' = "setState"
    /\ UNCHANGED <<pitsPerPlayer, seedsPerPit, arg, result, mid, clone, snap>>
    /\ UNCHANGED agentVars
    /\ UNCHANGED trainVars

\* the arguments of reset: <<>> for reset(), <<s>> for reset(s)
ResetArgs == {<<>>} \cup {<<s>> : s \in 1 .. ObjSeeds}

\* the seeds reset puts in every pit
ResetSeeds(a) == IF a = <<>> THEN ResetDefault ELSE a[1]

\* reset(seedsPerPit = 4): new arrays, nothing of the constructor's options
\* is consulted but totalPits
Reset ==
    /\ \E a \in ResetArgs :
         /\ board' = [i \in Pits(pitsPerPlayer) |-> ResetSeeds(a)]
         /\ op' = IF a = <<>> THEN "reset()" ELSE "reset(n)"
    /\ stores' = [i \in 0 .. 1 |-> 0]
    /\ currentPlayer' = 0
    /\ gameOver' = FALSE
    /\ moveNumber' = 0
    /\ LET used == {refs.board, refs.stores} \cup HolderRefs(clone) \cup HolderRefs(snap)
           rb == Fresh(used)
       IN refs' = [board |-> rb, stores |-> Fresh(used \cup {rb})]
    /\ UNCHANGED <<pitsPerPlayer, seedsPerPit, clone, snap>>
    /\ NotAMove
    /\ UNCHANGED agentVars
    /\ UNCHANGED trainVars

InitObj ==
    /\ \E s \in 1 .. ObjSeeds : NewEngine(ObjPits, s)
    /\ NoCall
    /\ NoObjects
    /\ NoAgent
    /\ NoTrainer

\* an engine and its clone, both played
NextClone == MainMove \/ Clone \/ CloneMove

SpecClone == InitObj /\ [][NextClone]_vars

\* an engine played, saved and restored
NextState == MainMove \/ GetStateCall \/ SetStateCall

SpecState == InitObj /\ [][NextState]_vars

\* an engine played and reset
NextReset == MainMove \/ Reset

SpecReset == InitObj /\ [][NextReset]_vars

(* --------------------------- QLearningAgent ---------------------------- *)
\* everything that belongs to the engine and the objects around it
gameVars == <<pitsPerPlayer, seedsPerPit, board, stores, currentPlayer,
              gameOver, moveNumber, arg, result, mid, op, refs, clone, snap>>

\* the 6 of move - (state.currentPlayer * 6) and of relativeMove < 6: the
\* number of outputs of the network
AgentPits == 6

\* bestQ = -Infinity: below every Q-value
NegInfinity == -1

\* bound: the states given to selectAction come from engines of AgentPits ..
\* MaxStatePits pits per side (with fewer, extractFeatures gives the network
\* a vector of the wrong length)
MaxStatePits == 7

\* bound: Q-values are 0 .. MaxQ
MaxQ == 1

\* bound: validMoves has 1 .. MaxMoves entries
MaxMoves == 3

\* bound: epsilon and epsilonMin are the fractions i / EpsGrid, i in 0 .. EpsGrid
EpsGrid == 2

\* bound: epsilonDecaySteps is 1 .. MaxDecay
MaxDecay == 3

\* bound: at most MaxSteps effective learning steps
MaxSteps == 4

\* bound: at most MaxRemember calls of remember
MaxRemember == 5

\* bound: replayBufferSize is 0 .. MaxBuffer
MaxBuffer == 3

\* bound: batchSize is 1 .. MaxBatch
MaxBatch == 2

\* bound: targetUpdateFreq is 1 .. MaxFreq
MaxFreq == 2

\* bound: the loss returned by fit is 0 .. MaxLoss
MaxLoss == 1

(* numbers: a fraction <<n, d>> with d > 0, in lowest terms *)
RECURSIVE GCD(_, _)
GCD(a, b) == IF b = 0 THEN a ELSE GCD(b, a % b)

Abs(x) == IF x < 0 THEN -x ELSE x

Norm(n, d) == LET g == GCD(Abs(n), d) IN <<n \div g, d \div g>>

\* a / b for integers, b > 0
RDiv(a, b) == Norm(a, b)

RSub(x, y) == Norm(x[1] * y[2] - y[1] * x[2], x[2] * y[2])

RMul(x, y) == Norm(x[1] * y[1], x[2] * y[2])

RLess(x, y) == x[1] * y[2] < y[1] * x[2]

\* Math.min and Math.max
RMin(x, y) == IF RLess(y, x) THEN y ELSE x

RMax(x, y) == IF RLess(x, y) THEN y ELSE x

One == <<1, 1>>

Zero == <<0, 1>>

\* the constructor: options as given, learning rates at their defaults
\* 0.001 and 0.0005, an empty buffer, the target network synchronised with
\* the online network (both at the initial weights 0), trainingStep 0
NewAgent(options) ==
    [learningRate |-> <<1, 1000>>,
     learningRateStart |-> <<1, 1000>>,
     learningRateEnd |-> <<1, 2000>>,
     gamma |-> IF "discountFactor" \in DOMAIN options
               THEN options.discountFactor ELSE <<99, 100>>,
     gradientClipValue |-> IF "gradientClipValue" \in DOMAIN options
                           THEN options.gradientClipValue ELSE <<1, 1>>,
     epsilon |-> options.epsilon,
     epsilonStart |-> options.epsilon,
     epsilonMin |-> options.epsilonMin,
     epsilonDecaySteps |-> options.epsilonDecaySteps,
     batchSize |-> options.batchSize,
     targetUpdateFreq |-> options.targetUpdateFreq,
     replayBuffer |-> <<>>,
     replayBufferSize |-> options.replayBufferSize,
     model |-> 0,
     targetModel |-> 0,
     trainingStep |-> 0]

\* the pits of a player on a board of n pits per side
OwnPits(player, n) == (player * n) .. (player * n + n - 1)

\* the record of a call on the agent
CallOf(name, cp, n, vm, q, explored, batch, r) ==
    [name |-> name, currentPlayer |-> cp, pits |-> n, validMoves |-> vm,
     qArray |-> q, explored |-> explored, batch |-> batch, result |-> r]

\* the elements of S in increasing order, as getValidMoves lists them
RECURSIVE SortedSeq(_)
SortedSeq(S) ==
    IF S = {} THEN <<>>
    ELSE LET m == CHOOSE x \in S : \A y \in S : x <= y
         IN <<m>> \o SortedSeq(S \ {m})

\* Math.random() < this.epsilon can be true, and can be false
CanExplore(epsilon) == RLess(Zero, epsilon)

CanExploit(epsilon) == RLess(epsilon, One)

\* validMoves[Math.floor(Math.random() * validMoves.length)], k the floor
Explore(validMoves, k) == validMoves[k + 1]

\* qArray[relativeMove], the array held as a sequence of AgentPits values
QAt(qArray, relativeMove) == qArray[relativeMove + 1]

\* the loop over validMoves of the exploitation branch
RECURSIVE GreedyLoop(_, _, _, _, _, _)
GreedyLoop(validMoves, i, player, qArray, bestAction, bestQ) ==
    IF i > Len(validMoves) THEN bestAction
    ELSE LET move == validMoves[i]
             relativeMove == move - (player * AgentPits)
         IN IF /\ relativeMove >= 0
               /\ relativeMove < AgentPits
               /\ QAt(qArray, relativeMove) > bestQ
            THEN GreedyLoop(validMoves, i + 1, player, qArray, move,
                            QAt(qArray, relativeMove))
            ELSE GreedyLoop(validMoves, i + 1, player, qArray, bestAction, bestQ)

\* the relative index is returned instead of the pit
Greedy_ReturnsRelative(player, validMoves, qArray) ==
    GreedyLoop(validMoves, 1, player, qArray, validMoves[1], NegInfinity)
        - (player * AgentPits)

\* bestAction = validMoves[0], bestQ = -Infinity, then the loop
Greedy(player, validMoves, qArray) ==
    GreedyLoop(validMoves, 1, player, qArray, validMoves[1], NegInfinity)

\* selectAction(state, validMoves) with the inputs held in call: the state
\* of an engine of call.pits pits per side with call.currentPlayer to move,
\* call.validMoves, and call.qArray the answer of the network for that state
SelectAction ==
    /\ \/ /\ CanExplore(agent.epsilon)
          /\ \E k \in 0 .. Len(call.validMoves) - 1 :
               call' = [call EXCEPT !.name = "selectAction",
                                    !.explored = TRUE,
                                    !.result = Explore(call.validMoves, k)]
       \/ /\ CanExploit(agent.epsilon)
          /\ call' = [call EXCEPT !.name = "selectAction",
                                  !.explored = FALSE,
                                  !.result = Greedy(call.currentPlayer,
                                                    call.validMoves, call.qArray)]
    /\ UNCHANGED <<agent, remembered>>
    /\ UNCHANGED gameVars
    /\ UNCHANGED trainVars

\* the oldest experience is kept and the newest dropped
PushAndEvict_DropsNewest(buffer, experience, size) ==
    LET pushed == Append(buffer, experience)
    IN IF Len(pushed) > size THEN SubSeq(pushed, 1, Len(pushed) - 1) ELSE pushed

\* replayBuffer.push(experience), then shift() when longer than
\* replayBufferSize
PushAndEvict(buffer, experience, size) ==
    LET pushed == Append(buffer, experience)
    IN IF Len(pushed) > size THEN Tail(pushed) ELSE pushed

\* remember(experience); the experience is named by its rank among the
\* remembered ones
Remember ==
    /\ remembered < MaxRemember
    /\ agent' = [agent EXCEPT !.replayBuffer =
                     PushAndEvict(@, remembered + 1, agent.replayBufferSize)]
    /\ remembered' = remembered + 1
    /\ call' = CallOf("remember", 0, 0, <<>>, <<>>, FALSE, {}, 0)
    /\ UNCHANGED gameVars
    /\ UNCHANGED trainVars

\* a learning step starts as soon as one experience is missing
EnoughExperiences_OneShort(buffer, batchSize) == ~(Len(buffer) + 1 < batchSize)

\* the negation of replayBuffer.length < batchSize
EnoughExperiences(buffer, batchSize) == ~(Len(buffer) < batchSize)

\* the progress is not capped at 1
Progress_Unbounded(a) == RDiv(a.trainingStep, a.epsilonDecaySteps)

\* Math.min(1.0, trainingStep / epsilonDecaySteps)
Progress(a) == RMin(One, RDiv(a.trainingStep, a.epsilonDecaySteps))

\* updateLearningRate()
UpdateLearningRate(a) ==
    [a EXCEPT !.learningRate =
        RSub(a.learningRateStart,
             RMul(Progress(a), RSub(a.learningRateStart, a.learningRateEnd)))]

\* the interpolation without the Math.max
UpdateEpsilon_NoFloor(a) ==
    [a EXCEPT !.epsilon =
        RSub(a.epsilonStart,
             RMul(Progress(a), RSub(a.epsilonStart, a.epsilonMin)))]

\* updateEpsilon()
UpdateEpsilon(a) ==
    [a EXCEPT !.epsilon =
        RMax(a.epsilonMin,
             RSub(a.epsilonStart,
                  RMul(Progress(a), RSub(a.epsilonStart, a.epsilonMin))))]

\* model.fit: the online network has the weights of learning step t
Fit(a, t) == [a EXCEPT !.model = t]

\* the target network keeps its weights
SyncTargetNetwork_KeepsTarget(a) == a

\* syncTargetNetwork()
SyncTargetNetwork(a) == [a EXCEPT !.targetModel = a.model]

\* the batches the sampling without replacement can draw
Batches(buffer, batchSize) ==
    LET held == {buffer[i] : i \in 1 .. Len(buffer)}
        size == IF batchSize < Len(buffer) THEN batchSize ELSE Len(buffer)
    IN {B \in SUBSET held : Cardinality(B) = size}

\* the targets of a learning step are computed with getTargetQValues, from
\* the weights the target network has at that point
TargetsFrom(a) == [weights |-> a.targetModel]

\* replay() past the underflow test: the counter, the two schedules, the
\* fit of the online network and the periodic sync of the target network
LearningStep(a) ==
    LET t == a.trainingStep + 1
        stepped == [a EXCEPT !.trainingStep = t]
        decayed == UpdateEpsilon(UpdateLearningRate(stepped))
        fitted == Fit(decayed, t)
    IN IF t % a.targetUpdateFreq = 0 THEN SyncTargetNetwork(fitted) ELSE fitted

\* replay()
Replay ==
    /\ \/ /\ ~EnoughExperiences(agent.replayBuffer, agent.batchSize)
          /\ agent' = agent
          /\ call' = CallOf("replay", 0, 0, <<>>, <<>>, FALSE, {}, 0)
          /\ UNCHANGED target
       \/ /\ EnoughExperiences(agent.replayBuffer, agent.batchSize)
          /\ agent.trainingStep < MaxSteps
          /\ \E batch \in Batches(agent.replayBuffer, agent.batchSize),
                loss \in 0 .. MaxLoss :
               /\ agent' = LearningStep(agent)
               /\ call' = CallOf("replay", 0, 0, <<>>, <<>>, FALSE, batch, loss)
               /\ target' = TargetsFrom(agent)
    /\ UNCHANGED remembered
    /\ UNCHANGED gameVars
    /\ UNCHANGED <<saved, trainer, experiences, evalRun, ui>>

\* the default engine, not played
DefaultEngine ==
    /\ NewEngine(6, 4)
    /\ NoCall
    /\ NoObjects

EpsValues == {RDiv(i, EpsGrid) : i \in 0 .. EpsGrid}

\* the lists getValidMoves can return to player cp on a board of n pits per
\* side, up to MaxMoves long
ValidMoveLists(cp, n) ==
    {SortedSeq(S) : S \in {T \in SUBSET OwnPits(cp, n) :
                             Cardinality(T) \in 1 .. MaxMoves}}

\* an agent built with some epsilon and the other options at their defaults,
\* and the inputs of the calls of selectAction
InitSelect ==
    /\ DefaultEngine
    /\ \E e \in EpsValues :
         agent = NewAgent([epsilon |-> e, epsilonMin |-> <<1, 20>>,
                           epsilonDecaySteps |-> 50000,
                           replayBufferSize |-> 100000, batchSize |-> 64,
                           targetUpdateFreq |-> 1000])
    /\ \E cp \in 0 .. 1, n \in AgentPits .. MaxStatePits :
         \E validMoves \in ValidMoveLists(cp, n),
            qArray \in [1 .. AgentPits -> 0 .. MaxQ] :
           call = CallOf("new", cp, n, validMoves, qArray, FALSE, {}, 0)
    /\ remembered = 0
    /\ NoTrainer

SpecSelect == InitSelect /\ [][SelectAction]_vars

\* an agent built with small options
InitAgent ==
    /\ DefaultEngine
    /\ \E e \in EpsValues, m \in EpsValues, d \in 1 .. MaxDecay,
          size \in 0 .. MaxBuffer, b \in 1 .. MaxBatch, f \in 1 .. MaxFreq :
         agent = NewAgent([epsilon |-> e, epsilonMin |-> m,
                           epsilonDecaySteps |-> d, replayBufferSize |-> size,
                           batchSize |-> b, targetUpdateFreq |-> f])
    /\ call = CallOf("new", 0, 0, <<>>, <<>>, FALSE, {}, 0)
    /\ remembered = 0
    /\ NoTrainer

NextAgent == Remember \/ Replay

SpecAgent == InitAgent /\ [][NextAgent]_vars

(* ----------------------------- save and load --------------------------- *)
\* the hyperparameters object written by save()
Hyperparameters(a) ==
    [learningRate |-> a.learningRate,
     learningRateStart |-> a.learningRateStart,
     learningRateEnd |-> a.learningRateEnd,
     gamma |-> a.gamma,
     epsilon |-> a.epsilon,
     epsilonStart |-> a.epsilonStart,
     epsilonMin |-> a.epsilonMin,
     epsilonDecaySteps |-> a.epsilonDecaySteps,
     replayBufferSize |-> a.replayBufferSize,
     batchSize |-> a.batchSize,
     targetUpdateFreq |-> a.targetUpdateFreq,
     gradientClipValue |-> a.gradientClipValue,
     trainingStep |-> a.trainingStep]

\* model.json as written by save(): the weights of the online network and
\* the hyperparameters
ModelConfig(a) == [weightsData |-> a.model, hyperparameters |-> Hyperparameters(a)]

\* x || y for a fraction x: 0 is falsy
OrNum(x, y) == IF x[1] = 0 THEN y ELSE x

\* x || y for an integer x
OrInt(x, y) == IF x = 0 THEN y ELSE x

\* load() up to the rebuilt target network: each hyperparameter is
\* hyper.x || this.x, trainingStep is hyper.trainingStep || 0, the online
\* network gets the saved weights
Restore(a, config) ==
    LET h == config.hyperparameters
    IN [a EXCEPT !.learningRate = OrNum(h.learningRate, @),
                 !.learningRateStart = OrNum(h.learningRateStart, @),
                 !.learningRateEnd = OrNum(h.learningRateEnd, @),
                 !.gamma = OrNum(h.gamma, @),
                 !.epsilon = OrNum(h.epsilon, @),
                 !.epsilonStart = OrNum(h.epsilonStart, @),
                 !.epsilonMin = OrNum(h.epsilonMin, @),
                 !.epsilonDecaySteps = OrInt(h.epsilonDecaySteps, @),
                 !.replayBufferSize = OrInt(h.replayBufferSize, @),
                 !.batchSize = OrInt(h.batchSize, @),
                 !.targetUpdateFreq = OrInt(h.targetUpdateFreq, @),
                 !.gradientClipValue = OrNum(h.gradientClipValue, @),
                 !.trainingStep = OrInt(h.trainingStep, 0),
                 !.model = config.weightsData]

\* save(path)
Save ==
    /\ saved' = << ModelConfig(agent) >>
    /\ call' = CallOf("save", 0, 0, <<>>, <<>>, FALSE, {}, 0)
    /\ UNCHANGED <<agent, remembered>>
    /\ UNCHANGED <<target, trainer, experiences, evalRun, ui>>
    /\ UNCHANGED gameVars

\* the agents load() is called on: built by the constructor with some
\* epsilon and the other options at their defaults
OtherAgents ==
    {NewAgent([epsilon |-> e, epsilonMin |-> <<1, 20>>,
               epsilonDecaySteps |-> 50000, replayBufferSize |-> 100000,
               batchSize |-> 64, targetUpdateFreq |-> 1000]) : e \in EpsValues}

\* load(path) on another agent, which is the agent from then on
Load ==
    /\ saved # <<>>
    /\ \E other \in OtherAgents :
         agent' = SyncTargetNetwork(Restore(other, saved[1]))
    /\ remembered' = 0
    /\ call' = CallOf("load", 0, 0, <<>>, <<>>, FALSE, {}, 0)
    /\ UNCHANGED <<saved, target, trainer, experiences, evalRun, ui>>
    /\ UNCHANGED gameVars

\* load() up to the throw of modelFromJSON() on model data that cannot be
\* rebuilt: the hyperparameters and trainingStep are restored by then, the
\* online network and the target network are not
RestoredBeforeThrow(a, config) == [Restore(a, config) EXCEPT !.model = a.model]

\* load(path) throws: no model.json at the path, or a model.json whose
\* hyperparameters are those save() wrote and whose modelTopology is broken
LoadFails ==
    /\ \E kind \in {"notFound", "malformed"} :
         /\ kind = "malformed" => saved # <<>>
         /\ agent' = IF kind = "notFound" THEN agent
                     ELSE RestoredBeforeThrow(agent, saved[1])
    /\ call' = CallOf("loadFailed", 0, 0, <<>>, <<>>, FALSE, {}, 0)
    /\ UNCHANGED <<saved, remembered>>
    /\ UNCHANGED <<target, trainer, experiences, evalRun, ui>>
    /\ UNCHANGED gameVars

\* an agent built with small options: a buffer and batches of one experience
InitPersist ==
    /\ DefaultEngine
    /\ \E e \in EpsValues, m \in EpsValues, f \in 1 .. MaxFreq :
         agent = NewAgent([epsilon |-> e, epsilonMin |-> m,
                           epsilonDecaySteps |-> MaxDecay,
                           replayBufferSize |-> 1, batchSize |-> 1,
                           targetUpdateFreq |-> f])
    /\ call = CallOf("new", 0, 0, <<>>, <<>>, FALSE, {}, 0)
    /\ remembered = 0
    /\ NoTrainer

NextPersist == Remember \/ Replay \/ Save \/ Load

SpecPersist == InitPersist /\ [][NextPersist]_vars

\* learning, saving and loads that fail; the weights are named by the
\* trainingStep that produced them, so this specification is read only for
\* what a failing load() does to the agent
NextLoadFails == Remember \/ Replay \/ Save \/ LoadFails

SpecLoadFails == InitPersist /\ [][NextLoadFails]_vars

(* ------------------- the targets of a learning step -------------------- *)
\* bound: the target network answers values -MaxNextQ .. MaxNextQ
MaxNextQ == 1

RAdd(x, y) == Norm(x[1] * y[2] + y[1] * x[2], x[2] * y[2])

RNeg(x) == <<-x[1], x[2]>>

\* an integer as a number
RInt(i) == <<i, 1>>

\* Math.max(...values), values not empty
RECURSIVE MaxFrom(_, _, _)
MaxFrom(values, i, best) ==
    IF i > Len(values) THEN best
    ELSE MaxFrom(values, i + 1, IF values[i] > best THEN values[i] ELSE best)

MaxOf(values) == MaxFrom(values, 2, values[1])

\* the value of the next state is added whoever moves there
TargetQ_NoFlip(exp, nextQ, gamma) ==
    IF exp.done THEN RInt(exp.reward)
    ELSE RAdd(RInt(exp.reward), RMul(gamma, RInt(MaxOf(nextQ))))

\* targetQ of replay() for the experience exp, nextQ the answer of the target
\* network for exp.nextState
TargetQ(exp, nextQ, gamma) ==
    IF exp.done THEN RInt(exp.reward)
    ELSE LET nextValue == IF exp.player # exp.nextPlayer
                          THEN RNeg(RInt(MaxOf(nextQ)))
                          ELSE RInt(MaxOf(nextQ))
         IN RAdd(RInt(exp.reward), RMul(gamma, nextValue))

\* the experiences a batch can hold, as far as the target reads them:
\* state.currentPlayer, nextState.currentPlayer, reward and done
Experiences ==
    [player : 0 .. 1, nextPlayer : 0 .. 1, reward : -1 .. 1, done : BOOLEAN]

\* a sampled experience and the answer of the target network, targetQ not
\* yet computed
InitTarget ==
    /\ DefaultEngine
    /\ \E g \in {<<99, 100>>, <<1, 2>>} :
         agent = NewAgent([epsilon |-> One, epsilonMin |-> <<1, 20>>,
                           epsilonDecaySteps |-> 50000,
                           replayBufferSize |-> 100000, batchSize |-> 64,
                           targetUpdateFreq |-> 1000, discountFactor |-> g])
    /\ call = CallOf("new", 0, 0, <<>>, <<>>, FALSE, {}, 0)
    /\ remembered = 0
    /\ \E exp \in Experiences, nextQ \in [1 .. AgentPits -> -MaxNextQ .. MaxNextQ] :
         target = [exp |-> exp, nextQ |-> nextQ, targetQ |-> <<>>]
    /\ saved = <<>>
    /\ trainer = <<>>
    /\ experiences = <<>>
    /\ evalRun = <<>>
    /\ ui = <<>>

\* the target computation of replay() for one experience of the batch
ComputeTarget ==
    /\ target' = [target EXCEPT
                    !.targetQ = << TargetQ(target.exp, target.nextQ, agent.gamma) >>]
    /\ UNCHANGED <<saved, trainer, experiences, evalRun, ui>>
    /\ UNCHANGED agentVars
    /\ UNCHANGED gameVars

SpecTarget == InitTarget /\ [][ComputeTarget]_vars

(* ------------------------------- Trainer ------------------------------- *)
\* bound: the games of the trainer are played on 1 .. EpisodePits pits per
\* side with 1 .. EpisodeSeeds seeds per pit ...
EpisodePits == 2
EpisodeSeeds == 2
\* ... and at most EpisodeSide seeds on each side
EpisodeSide == 4

EpisodeConfigs ==
    {c \in (1 .. EpisodePits) \X (1 .. EpisodeSeeds) : c[1] * c[2] <= EpisodeSide}

\* bound: a training run has 0 .. MaxEpisodes episodes
MaxEpisodes == 2

\* bound: at most MaxRuns training runs on one trainer
MaxRuns == 2

\* bound: trainCurriculum is called with 0 .. MaxCurriculum episodes
MaxCurriculum == 3

\* the 100 of recentWinRate.length > 100
RecentWindow == 100

\* evalInterval = 5000 of trainSelfPlay
EvalInterval == 5000

\* the stats object of the constructor and of resetStats()
NewStats ==
    [gamesPlayed |-> 0, wins |-> 0, losses |-> 0, draws |-> 0,
     totalReward |-> 0, recentWinRate |-> <<>>]

\* the statistics of earlier runs are kept
ResetStats_Keeps(stats) == stats

\* resetStats()
ResetStats(stats) == NewStats

\* updateStats(game, loss), winner the value of game.getWinner()
UpdateStats(stats, winner) ==
    LET pushed == Append(stats.recentWinRate, IF winner = <<0>> THEN 1 ELSE 0)
    IN [gamesPlayed |-> stats.gamesPlayed + 1,
        wins |-> stats.wins + (IF winner = <<0>> THEN 1 ELSE 0),
        losses |-> stats.losses + (IF winner = <<1>> THEN 1 ELSE 0),
        draws |-> stats.draws + (IF winner \in {<<0>>, <<1>>} THEN 0 ELSE 1),
        totalReward |-> stats.totalReward +
            (IF winner = <<0>> THEN 1 ELSE IF winner = <<1>> THEN -1 ELSE 0),
        recentWinRate |-> IF Len(pushed) > RecentWindow THEN Tail(pushed)
                          ELSE pushed]

\* the constructor of Trainer. override tells that this.resetStats is the
\* function that does nothing; mode, phase, numEpisodes and episode tell
\* where the trainer is in its current run, direct that the run was called
\* from outside, curriculum, stages and perStage the arguments of the
\* latest trainCurriculum and what is left of it, kinds which runs were
\* started from outside
NewTrainer ==
    [stats |-> NewStats, override |-> FALSE, mode |-> "idle", phase |-> "idle",
     numEpisodes |-> 0, episode |-> 0, direct |-> FALSE, curriculum |-> 0,
     stages |-> <<>>, perStage |-> FALSE, kinds |-> <<>>]

\* this.resetStats(), which trainCurriculum may have overridden
CallResetStats(t) == IF t.override THEN t.stats ELSE ResetStats(t.stats)

\* Math.floor(numEpisodes * 0.3) and Math.floor(numEpisodes * 0.4)
Share(n, tenths) == (n * tenths) \div 10

\* the stages of trainCurriculum
Stages(n) ==
    << [mode |-> "opponent", episodes |-> Share(n, 3)],
       [mode |-> "selfPlay", episodes |-> Share(n, 4)],
       [mode |-> "selfPlay", episodes |-> Share(n, 3)] >>

\* a game without winner counts as lost by player 0
Outcome_DrawAsLoss(done, winner) ==
    IF ~done THEN 0 ELSE IF winner = <<0>> THEN 1 ELSE -1

\* let reward = 0; if (done) { winner === 0 ? 1 : winner === 1 ? -1 : 0 }:
\* the reward of a move from player 0's perspective
Outcome(done, winner) ==
    IF ~done THEN 0
    ELSE IF winner = <<0>> THEN 1 ELSE IF winner = <<1>> THEN -1 ELSE 0

\* the reward is that of player 0 for both movers
SelfPlayReward_Player0View(mover, done, winner) == Outcome(done, winner)

\* the reward of a self-play experience:
\* currentPlayer === 0 ? reward : -reward
SelfPlayReward(mover, done, winner) ==
    IF mover = 0 THEN Outcome(done, winner) ELSE -Outcome(done, winner)

\* terminalReward of trainAgainstOpponent
TerminalReward(winner) ==
    IF winner = <<0>> THEN 1 ELSE IF winner = <<1>> THEN -1 ELSE 0

\* the last experience is left as it was recorded
WithTerminalReward_Untouched(exps, reward) == exps

\* lastExp.reward = terminalReward; lastExp.done = true
WithTerminalReward(exps, reward) ==
    IF Len(exps) = 0 THEN exps
    ELSE [exps EXCEPT ![Len(exps)] = [@ EXCEPT !.reward = reward, !.done = TRUE]]

\* for (const exp of experiences) this.agent.remember(exp), from the i-th on
RECURSIVE RememberAll(_, _, _)
RememberAll(a, exps, i) ==
    IF i > Len(exps) THEN a
    ELSE RememberAll([a EXCEPT !.replayBuffer =
                          PushAndEvict(@, exps[i], a.replayBufferSize)],
                     exps, i + 1)

\* replay() as a function of the agent
ReplayOn(a) ==
    IF EnoughExperiences(a.replayBuffer, a.batchSize) THEN LearningStep(a) ELSE a

\* (episode + 1) % evalInterval === 0 || episode + 1 === numEpisodes
CheckpointDue(episode, numEpisodes) ==
    (episode + 1) % EvalInterval = 0 \/ episode + 1 = numEpisodes

\* the trainer at the start of the episode loop of trainSelfPlay(n) or
\* trainAgainstOpponent(n)
Started(t, mode, n) ==
    [t EXCEPT !.stats = CallResetStats(t), !.mode = mode, !.phase = "loop",
              !.numEpisodes = n, !.episode = 0]

\* a call of trainSelfPlay(n) or trainAgainstOpponent(n) from outside
StartRun(mode) ==
    /\ Len(trainer.kinds) < MaxRuns
    /\ \E n \in 0 .. MaxEpisodes :
         trainer' = [Started(trainer, mode, n) EXCEPT
                        !.direct = TRUE, !.kinds = Append(@, mode)]
    /\ UNCHANGED <<target, saved, experiences, evalRun, ui>>
    /\ UNCHANGED agentVars
    /\ UNCHANGED gameVars

TrainSelfPlay ==
    /\ trainer.phase = "idle"
    /\ StartRun("selfPlay")

TrainAgainstOpponent ==
    /\ trainer.phase = "idle"
    /\ StartRun("opponent")

\* trainCurriculum(n, resetStatsPerStage) up to its loop over the stages
TrainCurriculum ==
    /\ trainer.phase = "idle"
    /\ Len(trainer.kinds) < MaxRuns
    /\ \E n \in 0 .. MaxCurriculum, resetStatsPerStage \in BOOLEAN :
         trainer' = [trainer EXCEPT
                        !.stats = IF resetStatsPerStage THEN @
                                  ELSE CallResetStats(trainer),
                        !.phase = "curriculum", !.direct = FALSE,
                        !.curriculum = n,
                        !.stages = Stages(n), !.perStage = resetStatsPerStage,
                        !.kinds = Append(@, "curriculum")]
    /\ UNCHANGED <<target, saved, experiences, evalRun, ui>>
    /\ UNCHANGED agentVars
    /\ UNCHANGED gameVars

\* the head of a stage: resetStats is overridden unless resetStatsPerStage,
\* then the stage's training function is called
BeginStage ==
    /\ trainer.phase = "curriculum"
    /\ trainer.stages # <<>>
    /\ LET stage == Head(trainer.stages)
           overridden == [trainer EXCEPT !.override = ~trainer.perStage,
                                         !.stages = Tail(@)]
       IN trainer' = Started(overridden, stage.mode, stage.episodes)
    /\ UNCHANGED <<target, saved, experiences, evalRun, ui>>
    /\ UNCHANGED agentVars
    /\ UNCHANGED gameVars

\* the loop over the stages is left and trainCurriculum returns
EndCurriculum ==
    /\ trainer.phase = "curriculum"
    /\ trainer.stages = <<>>
    /\ trainer' = [trainer EXCEPT !.phase = "idle"]
    /\ UNCHANGED <<target, saved, experiences, evalRun, ui>>
    /\ UNCHANGED agentVars
    /\ UNCHANGED gameVars

\* the head of the episode loop: a new game and no experiences
BeginEpisode ==
    /\ trainer.phase = "loop"
    /\ trainer.episode < trainer.numEpisodes
    /\ board' = [i \in Pits(pitsPerPlayer) |-> seedsPerPit]
    /\ stores' = [i \in 0 .. 1 |-> 0]
    /\ currentPlayer' = 0
    /\ gameOver' = FALSE
    /\ moveNumber' = 0
    /\ NotAMove
    /\ experiences' = <<>>
    /\ trainer' = [trainer EXCEPT !.phase = "play"]
    /\ UNCHANGED <<pitsPerPlayer, seedsPerPit, target, saved, evalRun, ui>>
    /\ UNCHANGED objVars
    /\ UNCHANGED agentVars

\* one pass of the while loop of trainSelfPlay; selectAction returns some
\* element of validMoves
SelfPlayMove ==
    /\ trainer.mode = "selfPlay"
    /\ trainer.phase = "play"
    /\ ~gameOver
    /\ \E k \in 1 .. Len(GetValidMoves) : MakeMoveValid(GetValidMoves[k])
    /\ experiences' = Append(experiences,
           [player |-> currentPlayer, action |-> arg',
            reward |-> SelfPlayReward(currentPlayer, gameOver', GetWinner'),
            nextPlayer |-> currentPlayer', done |-> gameOver'])
    /\ UNCHANGED <<target, saved, trainer, evalRun, ui>>
    /\ UNCHANGED objVars
    /\ UNCHANGED agentVars

\* the agent's turn in trainAgainstOpponent
AgentMove ==
    /\ trainer.mode = "opponent"
    /\ trainer.phase = "play"
    /\ ~gameOver
    /\ currentPlayer = 0
    /\ \E k \in 1 .. Len(GetValidMoves) : MakeMoveValid(GetValidMoves[k])
    /\ experiences' = Append(experiences,
           [player |-> currentPlayer, action |-> arg', reward |-> 0,
            nextPlayer |-> currentPlayer', done |-> gameOver'])
    /\ UNCHANGED <<target, saved, trainer, evalRun, ui>>
    /\ UNCHANGED objVars
    /\ UNCHANGED agentVars

\* the opponent's turn in trainAgainstOpponent; the policy returns some
\* element of validMoves
OpponentMove ==
    /\ trainer.mode = "opponent"
    /\ trainer.phase = "play"
    /\ ~gameOver
    /\ currentPlayer # 0
    /\ \E k \in 1 .. Len(GetValidMoves) : MakeMoveValid(GetValidMoves[k])
    /\ UNCHANGED <<target, saved, trainer, experiences, evalRun, ui>>
    /\ UNCHANGED objVars
    /\ UNCHANGED agentVars

\* the rest of the episode once the game is over: the terminal reward of
\* trainAgainstOpponent, remember, replay, updateStats and, in
\* trainSelfPlay, the checkpoint, whose evaluation may or may not find a
\* new best model to save
EndEpisode ==
    /\ trainer.phase = "play"
    /\ gameOver
    /\ LET final == IF trainer.mode = "opponent"
                    THEN WithTerminalReward(experiences, TerminalReward(GetWinner))
                    ELSE experiences
           filled == RememberAll(agent, final, 1)
           learned == ReplayOn(filled)
       IN /\ experiences' = final
          /\ agent' = learned
          /\ remembered' = remembered + Len(final)
          /\ target' = IF EnoughExperiences(filled.replayBuffer, filled.batchSize)
                       THEN TargetsFrom(filled) ELSE target
          /\ \/ saved' = saved
             \/ /\ trainer.mode = "selfPlay"
                /\ CheckpointDue(trainer.episode, trainer.numEpisodes)
                /\ saved' = << ModelConfig(learned) >>
    /\ trainer' = [trainer EXCEPT !.stats = UpdateStats(@, GetWinner),
                                  !.episode = @ + 1,
                                  !.phase = "loop"]
    /\ UNCHANGED <<call, evalRun, ui>>
    /\ UNCHANGED gameVars

\* the episode loop is left and the run returns, to its caller outside or
\* to trainCurriculum, which restores resetStats
FinishRun ==
    /\ trainer.phase = "loop"
    /\ trainer.episode >= trainer.numEpisodes
    /\ trainer' = IF trainer.direct
                  THEN [trainer EXCEPT !.phase = "idle"]
                  ELSE [trainer EXCEPT !.phase = "curriculum",
                                       !.override = FALSE]
    /\ UNCHANGED <<target, saved, experiences, evalRun, ui>>
    /\ UNCHANGED agentVars
    /\ UNCHANGED gameVars

\* a trainer on an agent with a buffer and batches of one experience
InitTrainer ==
    /\ \E c \in EpisodeConfigs : NewEngine(c[1], c[2])
    /\ NoCall
    /\ NoObjects
    /\ agent = NewAgent([epsilon |-> One, epsilonMin |-> Zero,
                         epsilonDecaySteps |-> MaxDecay, replayBufferSize |-> 1,
                         batchSize |-> 1, targetUpdateFreq |-> MaxFreq])
    /\ call = CallOf("new", 0, 0, <<>>, <<>>, FALSE, {}, 0)
    /\ remembered = 0
    /\ target = <<>>
    /\ saved = <<>>
    /\ trainer = NewTrainer
    /\ experiences = <<>>
    /\ evalRun = <<>>
    /\ ui = <<>>

NextTrainer ==
    \/ TrainSelfPlay
    \/ TrainAgainstOpponent
    \/ TrainCurriculum
    \/ BeginStage
    \/ EndCurriculum
    \/ BeginEpisode
    \/ SelfPlayMove
    \/ AgentMove
    \/ OpponentMove
    \/ EndEpisode
    \/ FinishRun

SpecTrainer == InitTrainer /\ [][NextTrainer]_vars

(* ------------------------------ evaluate ------------------------------- *)
\* bound: evaluate is called with 0 .. MaxGames games
MaxGames == 3

\* bound: at most MaxEvaluations calls of evaluate on one trainer
MaxEvaluations == 2

\* let wins = 0, losses = 0, draws = 0 of evaluateSide
NoResults == [wins |-> 0, losses |-> 0, draws |-> 0]

\* no call of evaluate yet. phase tells where the latest call is, before
\* is the agent's epsilon when it was called, games counts the games
\* started for either seat, i is the loop variable of evaluateSide
NewEvaluation ==
    [phase |-> "idle", calls |-> 0, before |-> Zero, savedEpsilon |-> Zero,
     numGames |-> 0, gamesPerSide |-> 0, agentPlayer |-> 0, i |-> 0,
     games |-> <<0, 0>>, sides |-> <<NoResults, NoResults>>,
     overall |-> NoResults]

\* this.agent.epsilon = 0
ForceGreedy(a) == [a EXCEPT !.epsilon = Zero]

\* the epsilon of the evaluation stays
RestoreEpsilon_Skips(a, savedEpsilon) == a

\* this.agent.epsilon = savedEpsilon
RestoreEpsilon(a, savedEpsilon) == [a EXCEPT !.epsilon = savedEpsilon]

\* half of the games, rounded up
GamesPerSide_RoundsUp(numGames) == (numGames + 1) \div 2

\* Math.floor(numGames / 2)
GamesPerSide(numGames) == numGames \div 2

\* winner === agentPlayer: wins++; winner === opponentPlayer: losses++;
\* else draws++
Counted(r, winner, agentPlayer) ==
    IF winner = <<agentPlayer>> THEN [r EXCEPT !.wins = @ + 1]
    ELSE IF winner = <<1 - agentPlayer>> THEN [r EXCEPT !.losses = @ + 1]
    ELSE [r EXCEPT !.draws = @ + 1]

\* totalWins, totalLosses and totalDraws
Combined(r0, r1) ==
    [wins |-> r0.wins + r1.wins, losses |-> r0.losses + r1.losses,
     draws |-> r0.draws + r1.draws]

\* evaluate(numGames, opponentPolicy) up to the first evaluateSide
Evaluate ==
    /\ evalRun.phase \in {"idle", "returned", "failed"}
    /\ evalRun.calls < MaxEvaluations
    /\ \E numGames \in 0 .. MaxGames :
         evalRun' = [NewEvaluation EXCEPT
                        !.phase = "side", !.calls = evalRun.calls + 1,
                        !.before = agent.epsilon,
                        !.savedEpsilon = agent.epsilon,
                        !.numGames = numGames,
                        !.gamesPerSide = GamesPerSide(numGames)]
    /\ agent' = ForceGreedy(agent)
    /\ UNCHANGED <<call, remembered>>
    /\ UNCHANGED <<target, saved, trainer, experiences, ui>>
    /\ UNCHANGED gameVars

\* the head of the loop of evaluateSide: a new game
BeginGame ==
    /\ evalRun.phase = "side"
    /\ evalRun.i < evalRun.gamesPerSide
    /\ board' = [i \in Pits(pitsPerPlayer) |-> seedsPerPit]
    /\ stores' = [i \in 0 .. 1 |-> 0]
    /\ currentPlayer' = 0
    /\ gameOver' = FALSE
    /\ moveNumber' = 0
    /\ NotAMove
    /\ evalRun' = [evalRun EXCEPT
                      !.phase = "game",
                      !.games[evalRun.agentPlayer + 1] = @ + 1]
    /\ UNCHANGED <<pitsPerPlayer, seedsPerPit>>
    /\ UNCHANGED <<target, saved, trainer, experiences, ui>>
    /\ UNCHANGED objVars
    /\ UNCHANGED agentVars

\* the agent's turn in evaluateSide: selectAction explores or exploits as
\* epsilon allows and returns some element of validMoves
AgentTurn ==
    /\ evalRun.phase = "game"
    /\ ~gameOver
    /\ currentPlayer = evalRun.agentPlayer
    /\ \E k \in 1 .. Len(GetValidMoves), explored \in BOOLEAN :
         /\ IF explored THEN CanExplore(agent.epsilon)
                        ELSE CanExploit(agent.epsilon)
         /\ call' = CallOf("selectAction", currentPlayer, pitsPerPlayer,
                           GetValidMoves, <<>>, explored, {}, GetValidMoves[k])
         /\ MakeMoveValid(GetValidMoves[k])
    /\ UNCHANGED <<agent, remembered>>
    /\ UNCHANGED trainVars
    /\ UNCHANGED objVars

\* the opponent's turn in evaluateSide: the policy returns some element of
\* validMoves
OpponentTurn ==
    /\ evalRun.phase = "game"
    /\ ~gameOver
    /\ currentPlayer # evalRun.agentPlayer
    /\ \E k \in 1 .. Len(GetValidMoves) : MakeMoveValid(GetValidMoves[k])
    /\ UNCHANGED trainVars
    /\ UNCHANGED objVars
    /\ UNCHANGED agentVars

\* the game is over: it is counted and the loop goes on
EndGame ==
    /\ evalRun.phase = "game"
    /\ gameOver
    /\ evalRun' = [evalRun EXCEPT
                      !.phase = "side",
                      !.i = @ + 1,
                      !.sides[evalRun.agentPlayer + 1] =
                          Counted(@, GetWinner, evalRun.agentPlayer)]
    /\ UNCHANGED <<target, saved, trainer, experiences, ui>>
    /\ UNCHANGED agentVars
    /\ UNCHANGED gameVars

\* evaluateSide(gamesPerSide, 0, ...) returns and
\* evaluateSide(gamesPerSide, 1, ...) is called
SecondSide ==
    /\ evalRun.phase = "side"
    /\ evalRun.i >= evalRun.gamesPerSide
    /\ evalRun.agentPlayer = 0
    /\ evalRun' = [evalRun EXCEPT !.agentPlayer = 1, !.i = 0]
    /\ UNCHANGED <<target, saved, trainer, experiences, ui>>
    /\ UNCHANGED agentVars
    /\ UNCHANGED gameVars

\* the second evaluateSide returns: epsilon is restored, the results are
\* combined and evaluate returns
EvaluateReturns ==
    /\ evalRun.phase = "side"
    /\ evalRun.i >= evalRun.gamesPerSide
    /\ evalRun.agentPlayer = 1
    /\ agent' = RestoreEpsilon(agent, evalRun.savedEpsilon)
    /\ evalRun' = [evalRun EXCEPT
                      !.phase = "returned",
                      !.overall = Combined(evalRun.sides[1], evalRun.sides[2])]
    /\ UNCHANGED <<call, remembered>>
    /\ UNCHANGED <<target, saved, trainer, experiences, ui>>
    /\ UNCHANGED gameVars

\* opponentPolicy, selectAction or makeMove throws inside the game loop:
\* evaluate has no try or finally, so the exception leaves evaluateSide and
\* evaluate at once
EvaluateThrows ==
    /\ evalRun.phase = "game"
    /\ ~gameOver
    /\ evalRun' = [evalRun EXCEPT !.phase = "failed"]
    /\ UNCHANGED <<target, saved, trainer, experiences, ui>>
    /\ UNCHANGED agentVars
    /\ UNCHANGED gameVars

\* a trainer on an agent with some epsilon
InitEvaluate ==
    /\ \E c \in EpisodeConfigs : NewEngine(c[1], c[2])
    /\ NoCall
    /\ NoObjects
    /\ \E e \in EpsValues :
         agent = NewAgent([epsilon |-> e, epsilonMin |-> Zero,
                           epsilonDecaySteps |-> MaxDecay,
                           replayBufferSize |-> 1, batchSize |-> 1,
                           targetUpdateFreq |-> MaxFreq])
    /\ call = CallOf("new", 0, 0, <<>>, <<>>, FALSE, {}, 0)
    /\ remembered = 0
    /\ target = <<>>
    /\ saved = <<>>
    /\ trainer = NewTrainer
    /\ experiences = <<>>
    /\ evalRun = NewEvaluation
    /\ ui = <<>>

NextEvaluate ==
    \/ Evaluate
    \/ BeginGame
    \/ AgentTurn
    \/ OpponentTurn
    \/ EndGame
    \/ SecondSide
    \/ EvaluateReturns
    \/ EvaluateThrows

SpecEvaluate == InitEvaluate /\ [][NextEvaluate]_vars

(* --------------------------- extractFeatures --------------------------- *)
\* bound: the states given to extractFeatures have one pit with seeds on
\* either side, 1 .. FeatSeeds each, and stores of 0 .. FeatStore
FeatSeeds == 2
FeatStore == 1

\* MAX_SEEDS_PER_PIT, MAX_STORE and MAX_REMAINING
MaxSeedsPerPitNorm == 20
MaxStoreNorm == 48
MaxRemainingNorm == 48

\* array.slice(lo, hi) of an array indexed from 0
RECURSIVE Slice(_, _, _)
Slice(array, lo, hi) ==
    IF lo >= hi \/ lo \notin DOMAIN array THEN <<>>
    ELSE <<array[lo]>> \o Slice(array, lo + 1, hi)

\* features.push(seeds / max) for the seeds of a list of pits
RECURSIVE Normalized(_, _)
Normalized(pits, max) ==
    IF pits = <<>> THEN <<>>
    ELSE <<RDiv(Head(pits), max)>> \o Normalized(Tail(pits), max)

\* state.board.reduce((a, b) => a + b, 0)
BoardSum(b) == SumRange(b, 0, Cardinality(DOMAIN b))

\* extractFeatures(state)
ExtractFeatures(state) ==
    LET cp == state.currentPlayer
        opponent == 1 - cp
        myPits == Slice(state.board, cp * AgentPits, (cp + 1) * AgentPits)
        oppPits == Slice(state.board, opponent * AgentPits,
                         (opponent + 1) * AgentPits)
    IN Normalized(myPits, MaxSeedsPerPitNorm)
         \o Normalized(oppPits, MaxSeedsPerPitNorm)
         \o << RDiv(state.stores[cp], MaxStoreNorm),
               RDiv(state.stores[opponent], MaxStoreNorm),
               RDiv(BoardSum(state.board), MaxRemainingNorm) >>

\* the state seen from the other seat: the halves of the board and the
\* stores swapped, the other player to move
Mirrored(state, n) ==
    [board |-> [i \in Pits(n) |-> state.board[(i + n) % (2 * n)]],
     stores |-> [i \in 0 .. 1 |-> state.stores[1 - i]],
     currentPlayer |-> 1 - state.currentPlayer]

\* the fields of getState() that extractFeatures reads
FeatureState ==
    [board |-> board, stores |-> stores, currentPlayer |-> currentPlayer]

\* the boards of n pits per side with seeds in one pit of either side
FeatureBoards(n) ==
    {[i \in Pits(n) |-> IF i = a THEN x ELSE IF i = b THEN y ELSE 0] :
        a \in OwnPits(0, n), b \in OwnPits(1, n),
        x \in 1 .. FeatSeeds, y \in 1 .. FeatSeeds}

\* two calls of extractFeatures on the state of the engine and one on the
\* state seen from the other seat
ExtractFeaturesCall ==
    /\ call' = [name |-> "extractFeatures",
                result |-> ExtractFeatures(FeatureState),
                again |-> ExtractFeatures(FeatureState),
                mirrored |-> ExtractFeatures(Mirrored(FeatureState,
                                                      pitsPerPlayer))]
    /\ UNCHANGED <<agent, remembered>>
    /\ UNCHANGED gameVars
    /\ UNCHANGED trainVars

\* a game in progress on an engine of AgentPits - 1 .. MaxStatePits pits
\* per side
InitFeatures ==
    /\ \E n \in (AgentPits - 1) .. MaxStatePits :
         /\ pitsPerPlayer = n
         /\ board \in FeatureBoards(n)
    /\ seedsPerPit = ResetDefault
    /\ stores \in [0 .. 1 -> 0 .. FeatStore]
    /\ currentPlayer \in 0 .. 1
    /\ gameOver = FALSE
    /\ moveNumber = 1
    /\ NoCall
    /\ NoObjects
    /\ agent = <<>>
    /\ call = [name |-> "new"]
    /\ remembered = 0
    /\ NoTrainer

SpecFeatures == InitFeatures /\ [][ExtractFeaturesCall]_vars

(* ----------------------- KalahAI.simulateMove -------------------------- *)
\* bound: a seeded pit of a position handed to simulateMove holds
\* 1 .. SimSeeds seeds
SimSeeds == 13
\* bound: the fuller store of such a position is at most SimStoreGap seeds
\* short of the last count below the win threshold
SimStoreGap == 0
\* bound: SimMoves moves are made from such a position
SimMoves == 1

\* the literals of simulateMove: pits per side, pits of the board, and the
\* sum of a pit and the pit facing it
SimPits == 6
SimTotalPits == 12
SimOppositeSum == 11
\* the seeds of the browser game: 6 pits of 4 seeds on either side
SimTotalSeeds == 48

RECURSIVE SimulateLoop(_, _)
\* the while (seeds > 0) loop of simulateMove, the capture inside it
SimulateLoop(w, player) ==
    IF w.seeds <= 0 THEN w
    ELSE
      LET cp == (w.currentPit + 1) % SimTotalPits
          drop == /\ \/ player = 0 /\ cp = SimPits
                     \/ player = 1 /\ cp = 0
                  /\ w.seeds > 0
          w1 == IF drop
                THEN [w EXCEPT !.currentPit = cp,
                               !.stores[player] = @ + 1,
                               !.seeds = @ - 1]
                ELSE [w EXCEPT !.currentPit = cp]
      IN
      IF drop /\ w1.seeds = 0
      THEN [w1 EXCEPT !.landedInStore = TRUE]
      ELSE
        IF w1.seeds > 0
        THEN LET wasEmpty == w1.board[cp] = 0
                 w2 == [w1 EXCEPT !.board[cp] = @ + 1, !.seeds = @ - 1]
                 opposite == SimOppositeSum - cp
             IN IF /\ w2.seeds = 0
                   /\ wasEmpty
                   /\ cp >= player * SimPits
                   /\ cp < player * SimPits + SimPits
                   /\ w2.board[opposite] > 0
                THEN SimulateLoop(
                       [w2 EXCEPT !.stores[player] =
                                      @ + w2.board[opposite] + w2.board[cp],
                                  !.board[opposite] = 0,
                                  !.board[cp] = 0], player)
                ELSE SimulateLoop(w2, player)
        ELSE SimulateLoop(w1, player)

\* simulateMove(state, pitIndex): the new state it returns
SimulateMove(state, pitIndex) ==
    LET w == SimulateLoop([board |-> [state.board EXCEPT ![pitIndex] = 0],
                           stores |-> state.stores,
                           seeds |-> state.board[pitIndex],
                           currentPit |-> pitIndex,
                           landedInStore |-> FALSE],
                          state.currentPlayer)
        p0Seeds == SumRange(w.board, 0, SimPits)
        p1Seeds == SumRange(w.board, SimPits, SimTotalPits)
        over == p0Seeds = 0 \/ p1Seeds = 0
    IN [board |-> IF over THEN [i \in DOMAIN w.board |-> 0] ELSE w.board,
        stores |-> IF over
                   THEN [i \in 0 .. 1 |->
                           w.stores[i] + (IF i = 0 THEN p0Seeds ELSE p1Seeds)]
                   ELSE w.stores,
        currentPlayer |-> IF ~w.landedInStore THEN 1 - state.currentPlayer
                          ELSE state.currentPlayer,
        gameOver |-> IF over THEN TRUE ELSE state.gameOver]

\* the state of the engine as getState() hands it to the AI
SimState ==
    [board |-> board, stores |-> stores, currentPlayer |-> currentPlayer,
     gameOver |-> gameOver]

\* simulateMove on the state of the engine for a valid pit, then makeMove of
\* that pit on the engine
SimulateThenMove ==
    /\ moveNumber <= SimMoves
    /\ \E k \in 1 .. Len(GetValidMoves) :
         /\ call' = [name |-> "simulateMove",
                     pit |-> GetValidMoves[k],
                     seeds |-> board[GetValidMoves[k]],
                     before |-> stores,
                     result |-> SimulateMove(SimState, GetValidMoves[k])]
         /\ MakeMoveValid(GetValidMoves[k])
    /\ UNCHANGED objVars
    /\ UNCHANGED <<agent, remembered>>
    /\ UNCHANGED trainVars

\* the positions of the 6-pit game of 48 seeds with seeds in one pit of
\* either side, no store at the win threshold
InitSimulate ==
    /\ pitsPerPlayer = SimPits
    /\ seedsPerPit = ResetDefault
    /\ \E a \in OwnPits(0, SimPits), b \in OwnPits(1, SimPits),
          x \in 1 .. SimSeeds, y \in 1 .. SimSeeds,
          hi \in (WinThreshold - 1 - SimStoreGap) .. (WinThreshold - 1),
          side \in 0 .. 1 :
         LET rest == SimTotalSeeds - hi - x - y IN
         /\ rest \in 0 .. (WinThreshold - 1)
         /\ board = [i \in Pits(SimPits) |->
                       IF i = a THEN x ELSE IF i = b THEN y ELSE 0]
         /\ stores = [i \in 0 .. 1 |-> IF i = side THEN hi ELSE rest]
    /\ currentPlayer \in 0 .. 1
    /\ gameOver = FALSE
    /\ moveNumber = 1
    /\ NoCall
    /\ NoObjects
    /\ agent = <<>>
    /\ call = [name |-> "new"]
    /\ remembered = 0
    /\ NoTrainer

SpecSimulate == InitSimulate /\ [][SimulateThenMove]_vars

(* ------------------------------ KalahUI -------------------------------- *)
\* bound: the engine of the page makes at most UIMoves moves
UIMoves == 2
\* bound: at most MaxTimers makeAIMove timers are pending
MaxTimers == 1

\* the engine of the page: 6 pits of 4 seeds
UIPits == 6
UISeeds == 4

\* the fields of KalahUI and of its RLAgent after the constructors; timers
\* counts the pending setTimeout(makeAIMove) calls, waiter names the handler
\* awaiting the loadModel() call in flight, alert tells whether the latest
\* handler showed the model-not-found alert and why loadModel() answered
\* false: "loadFailed" from its catch, "loadInFlight" from its test of
\* this.loading
NewUI ==
    [aiEnabled |-> FALSE,
     aiDifficulty |-> "medium",
     moveHistory |-> <<>>,
     timers |-> 0,
     loaded |-> FALSE,
     loading |-> FALSE,
     waiter |-> "none",
     alert |-> "none"]

\* the values of the difficulty selector
Difficulties == {"easy", "medium", "hard"}

\* engine.getState()
UIState ==
    [board |-> board, stores |-> stores, currentPlayer |-> currentPlayer,
     gameOver |-> gameOver, moveNumber |-> moveNumber]

\* no handler of the page touches the learning agent or a trainer
PageOnly ==
    /\ UNCHANGED agentVars
    /\ UNCHANGED <<target, saved, trainer, experiences, evalRun>>

\* the engine and the latest makeMove call are left alone
EngineUntouched == UNCHANGED gameVars

\* a handler ends with the page u
Handled(u, alert) == ui' = [u EXCEPT !.alert = alert]

\* makeAIMove() called on the page u: the AI plays one of the valid pits
\* and a further makeAIMove is scheduled when the turn stays with player 1
MakeAIMove(u, alert) ==
    IF ~u.aiEnabled \/ gameOver \/ currentPlayer # 1
    THEN Handled(u, alert) /\ EngineUntouched
    ELSE /\ moveNumber < UIMoves
         /\ \E k \in 1 .. Len(GetValidMoves) : MakeMoveValid(GetValidMoves[k])
         /\ Handled([u EXCEPT !.moveHistory = Append(@, UIState),
                              !.timers = IF /\ ~gameOver'
                                            /\ u.aiEnabled
                                            /\ currentPlayer' = 1
                                         THEN @ + 1 ELSE @],
                    alert)
         /\ ui'.timers <= MaxTimers
         /\ UNCHANGED objVars

\* the model-not-found alert and the switch to medium
Downgraded(u) == [u EXCEPT !.aiDifficulty = "medium"]

\* the rest of toggleAI once loadModel has answered: the alert and the
\* downgrade when it answered false, then the AI moves if it is its turn
ToggleAILoaded(u, alert) ==
    LET u1 == IF alert = "none" THEN u ELSE Downgraded(u) IN
    IF currentPlayer = 1 /\ ~gameOver
    THEN MakeAIMove(u1, alert)
    ELSE Handled(u1, alert) /\ EngineUntouched

\* the rest of changeDifficulty once loadModel has answered
ChangeDifficultyLoaded(u, alert) ==
    /\ Handled(IF alert = "none" THEN u ELSE Downgraded(u), alert)
    /\ EngineUntouched

\* toggleAI(), up to its await of a fetch or to its end; a loadModel() that
\* finds a load in flight answers false at once
ToggleAI ==
    /\ LET u == [ui EXCEPT !.aiEnabled = ~@] IN
       IF ~u.aiEnabled THEN Handled(u, "none") /\ EngineUntouched
       ELSE IF u.aiDifficulty = "hard" /\ ~u.loaded
       THEN IF u.loading
            THEN ToggleAILoaded(u, "loadInFlight")
            ELSE /\ Handled([u EXCEPT !.loading = TRUE,
                                      !.waiter = "toggleAI"], "none")
                 /\ EngineUntouched
       ELSE ToggleAILoaded(u, "none")
    /\ PageOnly

\* changeDifficulty(difficulty), up to its await of a fetch or to its end
ChangeDifficulty ==
    /\ \E difficulty \in Difficulties :
         LET u == [ui EXCEPT !.aiDifficulty = difficulty] IN
         IF difficulty = "hard" /\ ~u.loaded
         THEN IF u.loading
              THEN ChangeDifficultyLoaded(u, "loadInFlight")
              ELSE /\ Handled([u EXCEPT !.loading = TRUE,
                                        !.waiter = "changeDifficulty"],
                              "none")
                   /\ EngineUntouched
         ELSE ChangeDifficultyLoaded(u, "none")
    /\ PageOnly

\* the loadModel() in flight ends, with the model loaded or in its catch,
\* and the handler that awaited it goes on
LoadModelSettles ==
    /\ ui.loading
    /\ \E ok \in BOOLEAN :
         LET u == [ui EXCEPT !.loaded = ok, !.loading = FALSE,
                             !.waiter = "none"]
             alert == IF ok THEN "none" ELSE "loadFailed"
         IN IF ui.waiter = "toggleAI"
            THEN ToggleAILoaded(u, alert)
            ELSE ChangeDifficultyLoaded(u, alert)
    /\ PageOnly

\* handlePitClick(pitIndex)
HandlePitClick ==
    /\ \E pitIndex \in Pits(UIPits) :
         IF \/ gameOver
            \/ ui.aiEnabled /\ currentPlayer = 1
            \/ ~IsValidMove(pitIndex)
         THEN Handled(ui, "none") /\ EngineUntouched
         ELSE /\ moveNumber < UIMoves
              /\ MakeMoveValid(pitIndex)
              /\ Handled([ui EXCEPT !.moveHistory = Append(@, UIState),
                                    !.timers = IF /\ ~gameOver'
                                                  /\ ui.aiEnabled
                                                  /\ currentPlayer' = 1
                                               THEN @ + 1 ELSE @],
                         "none")
              /\ ui'.timers <= MaxTimers
              /\ UNCHANGED objVars
    /\ PageOnly

\* a makeAIMove timer fires
MakeAIMoveTimer ==
    /\ ui.timers > 0
    /\ MakeAIMove([ui EXCEPT !.timers = @ - 1], "none")
    /\ PageOnly

\* undo()
Undo ==
    /\ IF Len(ui.moveHistory) = 0
       THEN Handled(ui, "none") /\ EngineUntouched
       ELSE LET previousState == ui.moveHistory[Len(ui.moveHistory)] IN
            /\ board' = previousState.board
            /\ stores' = previousState.stores
            /\ currentPlayer' = previousState.currentPlayer
            /\ gameOver' = previousState.gameOver
            /\ moveNumber' = previousState.moveNumber
            /\ Handled([ui EXCEPT !.moveHistory =
                                      SubSeq(@, 1, Len(ui.moveHistory) - 1)],
                       "none")
            /\ UNCHANGED <<pitsPerPlayer, seedsPerPit, arg, result, mid>>
            /\ UNCHANGED objVars
    /\ PageOnly

\* reset(): the engine's reset() sets player 0 to move, so no AI move is
\* scheduled
ResetPage ==
    /\ board' = [i \in Pits(pitsPerPlayer) |-> ResetDefault]
    /\ stores' = [i \in 0 .. 1 |-> 0]
    /\ currentPlayer' = 0
    /\ gameOver' = FALSE
    /\ moveNumber' = 0
    /\ Handled([ui EXCEPT !.moveHistory = <<>>], "none")
    /\ UNCHANGED <<pitsPerPlayer, seedsPerPit, arg, result, mid>>
    /\ UNCHANGED objVars
    /\ PageOnly

\* the page after new KalahUI()
InitUI ==
    /\ pitsPerPlayer = UIPits
    /\ seedsPerPit = UISeeds
    /\ board = [i \in Pits(UIPits) |-> UISeeds]
    /\ stores = [i \in 0 .. 1 |-> 0]
    /\ currentPlayer = 0
    /\ gameOver = FALSE
    /\ moveNumber = 0
    /\ NoCall
    /\ NoObjects
    /\ agent = <<>>
    /\ call = [name |-> "new"]
    /\ remembered = 0
    /\ target = <<>>
    /\ saved = <<>>
    /\ trainer = <<>>
    /\ experiences = <<>>
    /\ evalRun = <<>>
    /\ ui = NewUI

NextUI ==
    \/ HandlePitClick
    \/ MakeAIMoveTimer
    \/ Undo
    \/ ResetPage
    \/ ToggleAI
    \/ ChangeDifficulty
    \/ LoadModelSettles

SpecUI == InitUI /\ [][NextUI]_vars

(* ------------------------------ helpers -------------------------------- *)
\* the latest makeMove call was a valid move
Moved == result # <<>>

\* its moveDetails
Details == result[1]

\* number of seeds the sowing of a move dropped in its mover's store
StoreDrops(d) ==
    Cardinality({i \in 1 .. Len(d.sowingPath) : d.sowingPath[i] = StoreOf(d.player)})

\* the last seed of a move went to its mover's store
LastInStore(d) ==
    /\ Len(d.sowingPath) > 0
    /\ d.sowingPath[Len(d.sowingPath)] = StoreOf(d.player)

\* the last seed of a move went to pit c
LastInPit(d, c) ==
    /\ Len(d.sowingPath) > 0
    /\ d.sowingPath[Len(d.sowingPath)] = PitOf(c)

(* ------------------------------- claims -------------------------------- *)

\* C1: seed conservation. In every state reached from a fresh engine by
\* makeMove calls, valid or not, the seeds on the board plus the two stores
\* equal totalSeeds = 2 * pitsPerPlayer * seedsPerPit.
C1_SeedConservation ==
    SumRange(board, 0, totalPits) + stores[0] + stores[1]
        = 2 * pitsPerPlayer * seedsPerPit

\* a capture has happened, both stores hold seeds, and a call was rejected
C1_Witness ==
    /\ ~Moved
    /\ moveNumber >= 2
    /\ stores[0] > 0
    /\ stores[1] > 0
    /\ \E i \in Pits(pitsPerPlayer) : board[i] > seedsPerPit

\* the pit p is playable as the claim spells it out: the game is running,
\* p is one of the current player's pits and it holds a seed
C2_Playable(p) ==
    /\ ~gameOver
    /\ p \in OwnPits(currentPlayer, pitsPerPlayer)
    /\ board[p] > 0

\* C2: validity closure. A makeMove(pit) call changes the engine state
\* exactly when the pit was playable just before the call; otherwise it
\* returns null and board, stores, currentPlayer, gameOver and moveNumber
\* are unchanged.
C2_ValidityClosure ==
    [][ /\ C2_Playable(arg') <=> (engine' # engine)
        /\ C2_Playable(arg') <=> (result' # <<>>)
        /\ ~C2_Playable(arg') =>
              /\ board' = board
              /\ stores' = stores
              /\ currentPlayer' = currentPlayer
              /\ gameOver' = gameOver
              /\ moveNumber' = moveNumber ]_vars

\* a call on an empty pit of the player to move was rejected in mid-game
C2_Witness ==
    /\ ~Moved
    /\ moveNumber > 0
    /\ ~gameOver
    /\ arg \in OwnPits(currentPlayer, pitsPerPlayer)
    /\ board[arg] = 0

\* C3: getValidMoves() lists, without repetition, exactly the pits p with
\* isValidMove(p), which are the pits of the current player's half holding
\* a seed; it is empty when the game is over.
C3_ValidMovesExact ==
    LET moves == GetValidMoves
        listed == {moves[i] : i \in 1 .. Len(moves)}
    IN /\ listed = {p \in -1 .. totalPits : IsValidMove(p)}
       /\ listed = {p \in OwnPits(currentPlayer, pitsPerPlayer) :
                       ~gameOver /\ board[p] > 0}
       /\ Cardinality(listed) = Len(moves)
       /\ gameOver => moves = <<>>

\* the player to move has an empty pit and a playable last pit
C3_Witness ==
    /\ ~gameOver
    /\ moveNumber > 0
    /\ \E p \in OwnPits(currentPlayer, pitsPerPlayer) : board[p] = 0
    /\ board[currentPlayer * pitsPerPlayer + pitsPerPlayer - 1] > 0
    /\ Len(GetValidMoves) > 0

\* C4: turn switch. After a valid move the player to move is the mover
\* exactly when the last seed sown went to the mover's own store.
C4_TurnSwitch ==
    Moved =>
        /\ (currentPlayer = Details.player) <=> LastInStore(Details)
        /\ currentPlayer # Details.player => currentPlayer = 1 - Details.player

\* player 1 keeps the turn after a move that ended in player 1's store
C4_Witness ==
    /\ Moved
    /\ Details.player = 1
    /\ LastInStore(Details)
    /\ currentPlayer = 1
    /\ ~gameOver

\* seeds a pit needs for its last seed to reach the mover's store
C5_Distance(player, p) == player * pitsPerPlayer + pitsPerPlayer - p

\* the step is a valid move whose pit holds exactly the seeds that reach the
\* mover's own store
C5_ExactStoreMove ==
    /\ result' # <<>>
    /\ board[arg'] = C5_Distance(currentPlayer, arg')

\* C5 as stated: a valid move whose pit holds exactly the seeds needed for
\* the last one to land in the mover's store leaves the turn with the mover
\* and raises the mover's store by exactly 1.
C5_StoreLandingAsStated ==
    [][ C5_ExactStoreMove =>
          /\ currentPlayer' = currentPlayer
          /\ stores'[currentPlayer] = stores[currentPlayer] + 1 ]_vars

\* C5: a valid move whose pit holds exactly the seeds needed for the last one
\* to land in the mover's store leaves the turn with the mover and raises the
\* mover's store by exactly 1, plus, when the move ends the game, the seeds
\* left on the mover's own side, which the end-of-game sweep collects.
C5_StoreLanding ==
    [][ C5_ExactStoreMove =>
          /\ currentPlayer' = currentPlayer
          /\ result'[1].extraTurn
          /\ stores'[currentPlayer] = stores[currentPlayer] + 1
                + (IF gameOver'
                   THEN SideSeeds(mid'.capt.board, pitsPerPlayer, currentPlayer)
                   ELSE 0) ]_vars

\* an exact store landing brought the store to the win threshold while the
\* mover still had seeds on their side
C5_Witness ==
    /\ Moved
    /\ Details.seedsSown = C5_Distance(Details.player, Details.pitIndex)
    /\ Details.gameEnded
    /\ currentPlayer = Details.player
    /\ SideSeeds(mid.capt.board, pitsPerPlayer, Details.player) > 0

\* the step is a valid move whose last seed landed in the own-side pit c,
\* which was empty just before
C6_LandsOnEmptyOwn(c) ==
    /\ result' # <<>>
    /\ c \in OwnPits(currentPlayer, pitsPerPlayer)
    /\ LastInPit(result'[1], c)
    /\ mid'.sown.board[c] = 1

\* C6 as stated: with opp = totalPits-1-c holding k seeds before the landing,
\* k > 0 gives board[c] = 0, board[opp] = 0 and the mover's store raised by
\* exactly k+1 plus the seeds the sowing dropped in it; k = 0 gives no
\* capture and board[c] = 1.
C6_CaptureAsStated ==
    [][ \A c \in Pits(pitsPerPlayer) :
          C6_LandsOnEmptyOwn(c) =>
            LET opp == totalPits - 1 - c
                k == mid'.sown.board[opp]
            IN /\ k > 0 =>
                    /\ board'[c] = 0
                    /\ board'[opp] = 0
                    /\ stores'[currentPlayer] =
                         stores[currentPlayer] + k + 1 + StoreDrops(result'[1])
               /\ k = 0 =>
                    /\ result'[1].captured = 0
                    /\ board'[c] = 1 ]_vars

\* C6: with opp = totalPits-1-c holding k seeds before the landing, k > 0
\* gives board[c] = 0, board[opp] = 0 and the mover's store raised by exactly
\* k+1 plus the seeds the sowing dropped in it plus, when the move ends the
\* game, the seeds the sweep collects from the mover's own side; k = 0 gives
\* no capture, and board[c] = 1 unless the move ends the game and the sweep
\* empties it.
C6_Capture ==
    [][ \A c \in Pits(pitsPerPlayer) :
          C6_LandsOnEmptyOwn(c) =>
            LET opp == totalPits - 1 - c
                k == mid'.sown.board[opp]
                swept == IF gameOver'
                         THEN SideSeeds(mid'.capt.board, pitsPerPlayer, currentPlayer)
                         ELSE 0
            IN /\ k > 0 =>
                    /\ result'[1].captured = k + 1
                    /\ mid'.capt.board[c] = 0
                    /\ board'[c] = 0
                    /\ board'[opp] = 0
                    /\ stores'[currentPlayer] =
                         stores[currentPlayer] + k + 1 + StoreDrops(result'[1]) + swept
               /\ k = 0 =>
                    /\ result'[1].captured = 0
                    /\ mid'.capt.board[c] = 1
                    /\ stores'[currentPlayer] =
                         stores[currentPlayer] + StoreDrops(result'[1]) + swept
                    /\ board'[c] = (IF gameOver' THEN 0 ELSE 1) ]_vars

\* a capture ended the game while the mover still had seeds on their side
C6_Witness ==
    /\ Moved
    /\ Details.captured > 1
    /\ Details.gameEnded
    /\ SideSeeds(mid.capt.board, pitsPerPlayer, Details.player) > 0

\* C7: in a move by player P the sowing and the capture leave stores[1-P]
\* alone, the opponent's store is no sowing destination, and stores[1-P]
\* changes only by the end-of-game sweep of the seeds on 1-P's own side.
C7_OpponentStore ==
    [][ result' # <<>> =>
          LET P == currentPlayer
              d == result'[1]
          IN /\ mid'.sown.stores[1 - P] = stores[1 - P]
             /\ mid'.capt.stores[1 - P] = stores[1 - P]
             /\ \A i \in 1 .. Len(d.sowingPath) : d.sowingPath[i] # StoreOf(1 - P)
             /\ stores'[1 - P] = stores[1 - P]
                  + (IF gameOver'
                     THEN SideSeeds(mid'.capt.board, pitsPerPlayer, 1 - P)
                     ELSE 0) ]_vars

\* a move walked past the opponent's store position and captured
C7_Witness ==
    /\ Moved
    /\ Details.seedsSown > totalPits
    /\ Details.captured > 0
    /\ StoreDrops(Details) >= 1

\* the first 2N seeds of a move go one each to the mover's store and to the
\* 2N-1 pits other than the starting pit
C8_FirstLap(d) ==
    LET first == IF Len(d.sowingPath) < totalPits
                 THEN Len(d.sowingPath) ELSE totalPits
    IN /\ \A i \in 1 .. first : d.sowingPath[i] # PitOf(d.pitIndex)
       /\ \A i, j \in 1 .. first : i # j => d.sowingPath[i] # d.sowingPath[j]

\* C8 as stated: the starting pit p gets none of the first 2N seeds, and
\* before capture and sweep board[p] is 0 for s <= 2N seeds and
\* ceil((s-2N)/(2N+1)) for s > 2N.
C8_MultiLapAsStated ==
    Moved =>
        LET d == Details
            s == d.seedsSown
        IN /\ C8_FirstLap(d)
           /\ mid.sown.board[d.pitIndex] =
                (IF s <= totalPits THEN 0
                 ELSE (s - totalPits + totalPits) \div (totalPits + 1))

\* C8: the starting pit p gets none of the first 2N seeds, is stepped over
\* once after them, and from then on gets a seed on every lap of 2N+1 seeds:
\* before capture and sweep board[p] is 0 for s <= 4N seeds and
\* ceil((s-4N)/(2N+1)) for s > 4N.
C8_MultiLap ==
    Moved =>
        LET d == Details
            s == d.seedsSown
        IN /\ C8_FirstLap(d)
           /\ mid.sown.board[d.pitIndex] =
                (IF s <= 2 * totalPits THEN 0
                 ELSE (s - 2 * totalPits + totalPits) \div (totalPits + 1))

\* a move of more than 4N seeds put a seed back into its starting pit
C8_Witness ==
    /\ Moved
    /\ Details.seedsSown > 2 * totalPits
    /\ mid.sown.board[Details.pitIndex] >= 1

\* C9: for every configuration, a valid move ends the game exactly when,
\* after sowing and capture, a store holds at least floor(totalSeeds/2)+1
\* seeds or one side of the board is empty.
C9_GameOverTrigger ==
    Moved =>
        (gameOver <=>
            \/ mid.capt.stores[0] >= (totalSeeds \div 2) + 1
            \/ mid.capt.stores[1] >= (totalSeeds \div 2) + 1
            \/ SideSeeds(mid.capt.board, pitsPerPlayer, 0) = 0
            \/ SideSeeds(mid.capt.board, pitsPerPlayer, 1) = 0)

\* C10: the move that ends the game raises each store by the seeds left on
\* that player's side after sowing and capture and empties every pit, so
\* every pit is 0 whenever gameOver is true.
C10_Sweep ==
    gameOver =>
        /\ \A i \in Pits(pitsPerPlayer) : board[i] = 0
        /\ \A P \in 0 .. 1 :
             stores[P] = mid.capt.stores[P]
                          + SideSeeds(mid.capt.board, pitsPerPlayer, P)

\* the game ended with seeds left on both sides, and both were swept
C10_Witness ==
    /\ gameOver
    /\ Moved
    /\ SideSeeds(mid.capt.board, pitsPerPlayer, 0) > 0
    /\ SideSeeds(mid.capt.board, pitsPerPlayer, 1) > 0

\* C11: OVER is terminal under moves. Once gameOver is true every makeMove
\* call, for every pit, returns null and leaves board, stores,
\* currentPlayer, gameOver and moveNumber as they are, and getValidMoves()
\* stays empty.
C11_OverIsTerminal ==
    [][ gameOver =>
          /\ GetValidMoves = <<>>
          /\ \A p \in -1 .. totalPits : ~IsValidMove(p)
          /\ result' = <<>>
          /\ engine' = engine
          /\ gameOver' ]_vars

\* after the end of the game a call on a pit of the board was rejected
C11_Witness ==
    /\ gameOver
    /\ ~Moved
    /\ moveNumber > 0
    /\ arg \in Pits(pitsPerPlayer)

\* C12: getWinner() is -1 exactly while the game is running; once it is over
\* it is the player with the strictly larger store, and null (not -1)
\* exactly when the stores are equal.
C12_Winner ==
    /\ GetWinner = <<-1>> <=> ~gameOver
    /\ \A P \in 0 .. 1 :
         GetWinner = <<P>> <=> (gameOver /\ stores[P] > stores[1 - P])
    /\ GetWinner = <<>> <=> (gameOver /\ stores[0] = stores[1])
    /\ <<>> # <<-1>>

\* a game ended in a draw with seeds in the stores
C12_Witness ==
    /\ gameOver
    /\ stores[0] = stores[1]
    /\ stores[0] > 0
    /\ GetWinner = <<>>

(* C13: clone() yields an engine whose board, stores, currentPlayer, gameOver
   and moveNumber equal the original's at the time of the call; afterwards a
   move on the clone leaves the original's state unchanged, and a move on the
   original leaves the clone's state unchanged. *)
C13_CloneIndependent ==
    [][ /\ op' = "clone" =>
             /\ clone' # <<>>
             /\ clone'[1].board = board
             /\ clone'[1].stores = stores
             /\ clone'[1].currentPlayer = currentPlayer
             /\ clone'[1].gameOver = gameOver
             /\ clone'[1].moveNumber = moveNumber
             /\ engine' = engine
        /\ op' = "cloneMove" => engine' = engine
        /\ (op' = "makeMove" /\ clone # <<>>) => clone' = clone ]_vars

\* the original has just moved after its clone was made and played, and the
\* two boards differ
C13_Witness ==
    /\ op = "makeMove"
    /\ result # <<>>
    /\ clone # <<>>
    /\ clone[1].moveNumber >= 1
    /\ clone[1].board # board

(* C14: a snapshot returned by getState() is not changed by a later makeMove
   on the engine, and after setState(s) getState() returns board, stores,
   currentPlayer, gameOver and moveNumber equal to those of s. *)
C14_DeepCopy ==
    [][ /\ (op' = "makeMove" /\ snap # <<>>) => snap' = snap
        /\ op' = "setState" =>
             LET g == GetState(0, 0)'
             IN /\ g.board = snap[1].board
                /\ g.stores = snap[1].stores
                /\ g.currentPlayer = snap[1].currentPlayer
                /\ g.gameOver = snap[1].gameOver
                /\ g.moveNumber = snap[1].moveNumber ]_vars

\* the engine was saved, then played, then restored: the last move made is
\* later than the position now on the board, which is the saved one
C14_Witness ==
    /\ op = "setState"
    /\ Moved
    /\ Details.moveNumber > moveNumber
    /\ snap # <<>>
    /\ board = snap[1].board
    /\ board # mid.capt.board

(* C15: reset() called from any state puts the engine in the state of a
   freshly constructed engine of the same configuration: every pit holds the
   configured seedsPerPit, stores are [0,0], currentPlayer is 0, gameOver is
   false and moveNumber is 0. *)
C15_ResetAsConstructed ==
    op = "reset()" =>
        /\ board = [i \in Pits(pitsPerPlayer) |-> seedsPerPit]
        /\ stores = [i \in 0 .. 1 |-> 0]
        /\ currentPlayer = 0
        /\ ~gameOver
        /\ moveNumber = 0

(* C16: for every state, every non-empty validMoves list, every epsilon and
   every Q-value vector, selectAction(state, validMoves) returns an element
   of validMoves. *)
C16_ReturnsValidMove ==
    call.name = "selectAction" =>
        \E i \in 1 .. Len(call.validMoves) : call.validMoves[i] = call.result

\* a greedy choice for player 1 that is not the first entry of validMoves
C16_Witness ==
    /\ call.name = "selectAction"
    /\ ~call.explored
    /\ call.currentPlayer = 1
    /\ Len(call.validMoves) >= 2
    /\ call.result # call.validMoves[1]

(* C17: when exploration does not fire, selectAction returns the valid move
   whose Q-value at relative index move - currentPlayer*N is maximal among
   the valid moves, N the pits per side of the state, and the first such
   move of validMoves when several share the maximum. Stated for the calls
   in which every relative index has a Q-value. *)
C17_GreedyAsStated ==
    LET vm == call.validMoves
        Q(m) == QAt(call.qArray, m - call.currentPlayer * call.pits)
    IN (/\ call.name = "selectAction"
        /\ ~call.explored
        /\ \A i \in 1 .. Len(vm) :
             vm[i] - call.currentPlayer * call.pits \in 0 .. AgentPits - 1)
       => \E i \in 1 .. Len(vm) :
            /\ vm[i] = call.result
            /\ \A j \in 1 .. Len(vm) : Q(vm[j]) <= Q(vm[i])
            /\ \A j \in 1 .. i - 1 : Q(vm[j]) < Q(vm[i])

(* C18: after n remember() calls the buffer length is min(n,
   replayBufferSize), never exceeds replayBufferSize, and the buffer holds
   exactly the min(n, replayBufferSize) most recently remembered experiences
   in insertion order. *)
C18_BoundedFifo ==
    LET size == agent.replayBufferSize
        L == IF remembered < size THEN remembered ELSE size
    IN /\ Len(agent.replayBuffer) = L
       /\ Len(agent.replayBuffer) <= size
       /\ \A i \in 1 .. L : agent.replayBuffer[i] = remembered - L + i

\* a buffer of at least two places that has evicted at least two experiences
C18_Witness ==
    /\ agent.replayBufferSize >= 2
    /\ remembered >= agent.replayBufferSize + 2
    /\ Len(agent.replayBuffer) = agent.replayBufferSize

(* C19: replay() called with fewer than batchSize experiences in the buffer
   returns 0 and leaves trainingStep, epsilon, learningRate, the online
   weights, the target weights and the buffer unchanged. *)
C19_UnderflowNoOp ==
    [][ (call'.name = "replay" /\ Len(agent.replayBuffer) < agent.batchSize) =>
           /\ call'.result = 0
           /\ agent'.trainingStep = agent.trainingStep
           /\ agent'.epsilon = agent.epsilon
           /\ agent'.learningRate = agent.learningRate
           /\ agent'.model = agent.model
           /\ agent'.targetModel = agent.targetModel
           /\ agent'.replayBuffer = agent.replayBuffer ]_vars

\* replay() was called on a buffer that is not empty and still too short
C19_Witness ==
    /\ call.name = "replay"
    /\ Len(agent.replayBuffer) >= 1
    /\ Len(agent.replayBuffer) < agent.batchSize
    /\ agent.trainingStep = 0

\* the linear interpolation of the claim, at the agent's trainingStep
Interpolation(a) ==
    RSub(a.epsilonStart,
         RMul(RMin(One, RDiv(a.trainingStep, a.epsilonDecaySteps)),
              RSub(a.epsilonStart, a.epsilonMin)))

\* a step of replay() on a buffer of at least batchSize experiences
EffectiveStep ==
    /\ call'.name = "replay"
    /\ ~(Len(agent.replayBuffer) < agent.batchSize)

(* C20 as stated: each effective learning step increments trainingStep by
   exactly 1, afterwards epsilon equals the linear interpolation, and from
   trainingStep >= epsilonDecaySteps on epsilon equals epsilonMin. *)
C20_EpsilonAsStated ==
    [][ EffectiveStep =>
           /\ agent'.trainingStep = agent.trainingStep + 1
           /\ agent'.epsilon = Interpolation(agent')
           /\ agent'.trainingStep >= agent'.epsilonDecaySteps
                => agent'.epsilon = agent'.epsilonMin ]_vars

(* C20: each effective learning step increments trainingStep by exactly 1,
   afterwards epsilon equals the larger of epsilonMin and the linear
   interpolation, and from trainingStep >= epsilonDecaySteps on epsilon
   equals epsilonMin. *)
C20_Epsilon ==
    [][ EffectiveStep =>
           /\ agent'.trainingStep = agent.trainingStep + 1
           /\ agent'.epsilon = RMax(agent'.epsilonMin, Interpolation(agent'))
           /\ agent'.trainingStep >= agent'.epsilonDecaySteps
                => agent'.epsilon = agent'.epsilonMin ]_vars

\* an agent built with epsilon below epsilonMin has taken a learning step
\* before the end of the decay: epsilon is epsilonMin, above the interpolation
C20_Witness ==
    /\ call.name = "replay"
    /\ agent.trainingStep >= 1
    /\ agent.trainingStep < agent.epsilonDecaySteps
    /\ RLess(agent.epsilonStart, agent.epsilonMin)
    /\ agent.epsilon = agent.epsilonMin
    /\ RLess(Interpolation(agent), agent.epsilon)

(* C21: the target for the taken action is the raw reward when done is true;
   otherwise it is reward + gamma * m when nextState.currentPlayer equals
   state.currentPlayer and reward + gamma * (-m) when they differ, m the
   maximum of the target network's values on nextState. *)
C21_TargetValue ==
    target.targetQ # <<>> =>
        \E i \in 1 .. AgentPits :
            LET m == target.nextQ[i]
                exp == target.exp
            IN /\ \A j \in 1 .. AgentPits : target.nextQ[j] <= m
               /\ target.targetQ[1] =
                    IF exp.done THEN RInt(exp.reward)
                    ELSE IF exp.nextPlayer = exp.player
                         THEN RAdd(RInt(exp.reward), RMul(agent.gamma, RInt(m)))
                         ELSE RAdd(RInt(exp.reward), RMul(agent.gamma, RInt(-m)))

\* a target computed for a move after which the opponent is to move, the
\* next state having a positive value: the target is below the reward
C21_Witness ==
    /\ target.targetQ # <<>>
    /\ ~target.exp.done
    /\ target.exp.player # target.exp.nextPlayer
    /\ \E i \in 1 .. AgentPits : target.nextQ[i] > 0
    /\ RLess(target.targetQ[1], RInt(target.exp.reward))

(* C22: the target network's weights equal the online network's weights as
   they were at the most recent sync point: they are equal at construction,
   after load() and at the end of every learning step whose trainingStep is
   a multiple of targetUpdateFreq; a learning step that is not a sync point
   changes the online weights only; the targets of a step are computed from
   the target weights before that step's sync; nothing else changes either
   network. *)
C22_TargetSync ==
    /\ agent.targetModel = agent.model
    /\ [][ IF call'.name = "load"
           THEN agent'.targetModel = agent'.model
           ELSE IF EffectiveStep
           THEN /\ target'.weights = agent.targetModel
                /\ agent'.model # agent.model
                /\ IF agent'.trainingStep % agent'.targetUpdateFreq = 0
                   THEN agent'.targetModel = agent'.model
                   ELSE agent'.targetModel = agent.targetModel
           ELSE /\ agent'.targetModel = agent.targetModel
                /\ agent'.model = agent.model ]_vars

\* a learning step that is no sync point, after one that was: the target
\* network is behind the online network
C22_Witness ==
    /\ call.name = "replay"
    /\ agent.trainingStep % agent.targetUpdateFreq # 0
    /\ agent.targetModel >= 1
    /\ agent.targetModel # agent.model
    /\ target # <<>>
    /\ target.weights = agent.targetModel

(* C23: save(path) followed by load(path) on another agent restores the
   learning-rate bounds and current learning rate, gamma, epsilon,
   epsilonStart, epsilonMin, epsilonDecaySteps, replayBufferSize, batchSize,
   targetUpdateFreq, gradientClipValue and trainingStep to the saved values,
   and leaves the target network synced to the restored online weights. *)
C23_RoundTrip ==
    call.name = "load" =>
        /\ Hyperparameters(agent) = saved[1].hyperparameters
        /\ agent.model = saved[1].weightsData
        /\ agent.targetModel = agent.model

\* a self-play episode has ended: its game is over and experiences holds
\* the experiences of that game
SelfPlayEnded ==
    /\ trainer.mode = "selfPlay"
    /\ \/ trainer.phase = "play" /\ gameOver
       \/ trainer.phase \in {"loop", "idle", "curriculum"} /\ trainer.episode >= 1

\* the reward of the game's result relative to a player
RelativeReward(player) ==
    IF GetWinner = <<player>> THEN 1
    ELSE IF GetWinner = <<1 - player>> THEN -1
    ELSE 0

\* C24: self-play terminal reward. In every self-play episode exactly one
\* experience has done = true, it is the experience of the game-ending
\* move, and its reward is +1 if its mover is the winner, -1 if its mover
\* is the loser and 0 on a draw.
C24_SelfPlayTerminal ==
    SelfPlayEnded =>
        LET n == Len(experiences)
        IN /\ n >= 1
           /\ {i \in 1 .. n : experiences[i].done} = {n}
           /\ Moved
           /\ experiences[n].action = arg
           /\ experiences[n].player = Details.player
           /\ experiences[n].reward = RelativeReward(experiences[n].player)

\* player 1 ended a self-play game of several moves and won it
C24_Witness ==
    /\ SelfPlayEnded
    /\ Len(experiences) >= 3
    /\ experiences[Len(experiences)].player = 1
    /\ GetWinner = <<1>>
    /\ experiences[Len(experiences)].reward = 1

\* C25 as stated: at the end of a self-play episode won by player W, the
\* experiences recorded for W's moves carry the reward +1 and those
\* recorded for the other player's moves carry -1, both 0 on a draw.
C25_MirroredAsStated ==
    SelfPlayEnded =>
        \A i \in 1 .. Len(experiences) :
            experiences[i].reward = RelativeReward(experiences[i].player)

\* C25: at the end of a self-play episode won by player W, the experience
\* of the game-ending move carries +1 when W made that move and the
\* mirrored -1 when the other player made it (0 on a draw); every other
\* experience of the episode, of either player, carries reward 0 and
\* done = false.
C25_Mirrored ==
    SelfPlayEnded =>
        \A i \in 1 .. Len(experiences) :
            IF i = Len(experiences)
            THEN experiences[i].reward =
                    (IF GetWinner = <<>> THEN 0
                     ELSE IF GetWinner = <<experiences[i].player>> THEN 1
                     ELSE -1)
            ELSE experiences[i].reward = 0 /\ ~experiences[i].done

\* the loser made the game-ending move: that experience carries -1 and the
\* experiences of the winner's moves carry 0
C25_Witness ==
    /\ SelfPlayEnded
    /\ GetWinner = <<0>>
    /\ experiences[Len(experiences)].player = 1
    /\ experiences[Len(experiences)].reward = -1
    /\ \E i \in 1 .. Len(experiences) - 1 :
          experiences[i].player = 0 /\ experiences[i].reward = 0

\* the experiences of an episode of trainAgainstOpponent as they are
\* handed to remember
C26_Final(exps) ==
    /\ Len(exps) >= 1
    /\ \A i \in 1 .. Len(exps) : exps[i].player = 0
    /\ exps[Len(exps)].done
    /\ exps[Len(exps)].reward =
          (IF GetWinner = <<0>> THEN 1 ELSE IF GetWinner = <<1>> THEN -1 ELSE 0)
    /\ \A i \in 1 .. Len(exps) - 1 : exps[i].reward = 0 /\ ~exps[i].done

(* C26: fixed-opponent terminal reward. In every trainAgainstOpponent
   episode a move adds an experience exactly when player 0, the agent, made
   it; when the episode ends the agent's last recorded experience has
   done = true and reward +1/-1/0 for an agent win/loss/draw, even when the
   opponent made the game-ending move, and every earlier experience of the
   episode has reward 0 and done = false. *)
C26_OpponentTerminal ==
    [][ trainer.mode = "opponent" /\ trainer.phase = "play" =>
          IF trainer'.phase = "play"
          THEN IF currentPlayer = 0
               THEN /\ Len(experiences') = Len(experiences) + 1
                    /\ experiences'[Len(experiences')].player = 0
                    /\ experiences'[Len(experiences')].action = arg'
               ELSE experiences' = experiences
          ELSE /\ gameOver
               /\ Len(experiences') = Len(experiences)
               /\ C26_Final(experiences') ]_vars

\* the opponent ended a game that the agent lost: the agent's last
\* experience, recorded while the game was running, carries -1 and done
C26_Witness ==
    /\ trainer.mode = "opponent"
    /\ trainer.phase = "loop"
    /\ trainer.episode >= 1
    /\ Moved
    /\ Details.player = 1
    /\ GetWinner = <<1>>
    /\ Len(experiences) >= 2
    /\ experiences[Len(experiences)].reward = -1
    /\ experiences[Len(experiences)].done

\* C30: training statistics are per run and complete. After any sequence
\* of earlier runs, curricula included, a call trainAgainstOpponent(n) or
\* trainSelfPlay(n) from outside counts every finished game exactly once
\* and ends with stats.gamesPlayed = n and
\* wins + losses + draws = gamesPlayed.
C30_StatsPerRun ==
    trainer.direct =>
        /\ trainer.stats.gamesPlayed = trainer.episode
        /\ trainer.stats.wins + trainer.stats.losses + trainer.stats.draws
              = trainer.stats.gamesPlayed
        /\ trainer.phase = "idle" =>
              trainer.stats.gamesPlayed = trainer.numEpisodes

\* a run after a curriculum has returned; it had a drawn game and the
\* curriculum had games too
C30_Witness ==
    /\ trainer.phase = "idle"
    /\ trainer.direct
    /\ trainer.kinds = <<"curriculum", "opponent">>
    /\ trainer.stats.gamesPlayed >= 1
    /\ trainer.stats.draws >= 1
    /\ agent.trainingStep > trainer.stats.gamesPlayed

\* a step of evaluate that makes a move of a game
C27_Move == evalRun.phase = "game" /\ moveNumber' = moveNumber + 1

(* C27: evaluation leaves epsilon untouched. During every move of an
   evaluate() run the agent's epsilon is 0, so that the agent never
   explores, and when evaluate() returns normally the agent's epsilon
   equals its value immediately before the call. *)
C27_EpsilonUntouched ==
    [][ /\ C27_Move =>
            /\ agent.epsilon = Zero
            /\ agent'.epsilon = Zero
            /\ currentPlayer = evalRun.agentPlayer => ~call'.explored
        /\ evalRun'.phase = "returned" => agent'.epsilon = evalRun'.before ]_vars

\* an evaluation of an agent with a positive epsilon has returned after
\* games for both seats
C27_Witness ==
    /\ evalRun.phase = "returned"
    /\ evalRun.games = <<1, 1>>
    /\ RLess(Zero, evalRun.before)
    /\ RLess(evalRun.before, One)
    /\ agent.epsilon = evalRun.before
    /\ call.name = "selectAction"

\* C28: if an evaluate() run fails partway (the opponent policy, action
\* selection or a game step throws), the agent's epsilon is still restored
\* to its value from before the call.
C28_RestoredOnFailure ==
    evalRun.phase = "failed" => agent.epsilon = evalRun.before

\* the numbers of games an evaluation played for the two seats and counted
C29_Played == evalRun.games[1] + evalRun.games[2]

C29_Counted(r) == r.wins + r.losses + r.draws

\* C29 as stated: for every numGames, evaluate(numGames) plays exactly
\* numGames games, as many for either seat, and the combined
\* wins + losses + draws equals numGames and the sum of the per-seat counts.
C29_SplitAsStated ==
    evalRun.phase = "returned" =>
        /\ C29_Played = evalRun.numGames
        /\ evalRun.games[1] = evalRun.games[2]
        /\ C29_Counted(evalRun.overall) = evalRun.numGames
        /\ C29_Counted(evalRun.overall) =
              C29_Counted(evalRun.sides[1]) + C29_Counted(evalRun.sides[2])

\* C29: evaluate(numGames) plays floor(numGames / 2) games for either seat,
\* which is numGames games when numGames is even and numGames - 1 when it
\* is odd; the combined wins + losses + draws equals the number of games
\* played and the sum of the two per-seat counts.
C29_Split ==
    evalRun.phase = "returned" =>
        /\ evalRun.games[1] = evalRun.numGames \div 2
        /\ evalRun.games[2] = evalRun.numGames \div 2
        /\ C29_Played = IF evalRun.numGames % 2 = 0 THEN evalRun.numGames
                        ELSE evalRun.numGames - 1
        /\ C29_Counted(evalRun.sides[1]) = evalRun.games[1]
        /\ C29_Counted(evalRun.sides[2]) = evalRun.games[2]
        /\ C29_Counted(evalRun.overall) = C29_Played
        /\ C29_Counted(evalRun.overall) =
              C29_Counted(evalRun.sides[1]) + C29_Counted(evalRun.sides[2])

\* an evaluation over three games has returned after one game for either
\* seat, the agent having won one and lost one
C29_Witness ==
    /\ evalRun.phase = "returned"
    /\ evalRun.numGames = 3
    /\ evalRun.games = <<1, 1>>
    /\ evalRun.overall = [wins |-> 1, losses |-> 1, draws |-> 0]

\* trainCurriculum(n) with resetStatsPerStage = false has returned
C31_CurriculumDone ==
    /\ trainer.phase = "idle"
    /\ trainer.kinds # <<>>
    /\ trainer.kinds[Len(trainer.kinds)] = "curriculum"
    /\ ~trainer.perStage

\* C31: curriculum statistics are cumulative. For every numEpisodes, after
\* trainCurriculum(numEpisodes) with resetStatsPerStage = false,
\* stats.gamesPlayed equals numEpisodes: the three stages together run
\* exactly numEpisodes episodes and no stage resets the counters of an
\* earlier stage.
C31_CurriculumCumulative ==
    C31_CurriculumDone => trainer.stats.gamesPlayed = trainer.curriculum

\* C32: every game terminates. Starting from a freshly constructed engine
\* there is no infinite sequence of valid moves: under any choice of valid
\* moves by both players the engine reaches gameOver = true after finitely
\* many moves.
C32_Terminates == <>gameOver

\* a game has ended after at least six moves, its last mover having moved
\* twice in a row
C32_Witness ==
    /\ gameOver
    /\ moveNumber >= 6
    /\ Moved
    /\ Details.gameEnded
    /\ stores[0] + stores[1] = 2 * pitsPerPlayer * seedsPerPit

\* C33: no stuck position. In every state reachable from a fresh engine in
\* which gameOver is false, the current player has at least one valid
\* move: getValidMoves() is not empty.
C33_NoStuckPosition ==
    ~gameOver =>
        /\ Len(GetValidMoves) > 0
        /\ \E p \in OwnPits(currentPlayer, pitsPerPlayer) : IsValidMove(p)

\* a running game in which the player to move has a single playable pit and
\* the other player has moved last
C33_Witness ==
    /\ ~gameOver
    /\ Moved
    /\ Details.player # currentPlayer
    /\ Len(GetValidMoves) = 1
    /\ pitsPerPlayer >= 2

\* the last seed of the latest move landed in the mover's store, in a pit
\* of the other side, or in an own pit that held a seed before it landed
C34_NoCaptureCase ==
    LET d == Details
        last == d.sowingPath[Len(d.sowingPath)]
    IN \/ last = StoreOf(d.player)
       \/ \E c \in Pits(pitsPerPlayer) :
            /\ last = PitOf(c)
            /\ \/ c \notin OwnPits(d.player, pitsPerPlayer)
               \/ mid.sown.board[c] >= 2

\* C34: capture happens only under the capture rule. If the last seed of a
\* move lands in the mover's store, in a pit on the opponent's side, or in
\* an own-side pit that held at least one seed just before the landing,
\* the move reports captured = 0 and the capture step moves nothing.
C34_CaptureOnlyByRule ==
    Moved /\ C34_NoCaptureCase =>
        /\ Details.captured = 0
        /\ mid.capt = mid.sown

\* the last seed landed in an empty pit of the other side that faces a
\* pit with seeds: nothing was captured
C34_Witness ==
    /\ Moved
    /\ Details.captured = 0
    /\ \E c \in Pits(pitsPerPlayer) :
          /\ Details.sowingPath[Len(Details.sowingPath)] = PitOf(c)
          /\ c \notin OwnPits(Details.player, pitsPerPlayer)
          /\ mid.sown.board[c] = 1
          /\ mid.sown.board[OppositePit(c, pitsPerPlayer)] > 0

\* x <= y on fractions
C35_AtMost(x, y) == ~RLess(y, x)

\* C35 as stated: for every agent configuration, epsilon always lies
\* between epsilonMin and the epsilon given at construction, and no
\* learning step increases it.
C35_OnlyDecaysAsStated ==
    [][ /\ C35_AtMost(agent.epsilonMin, agent.epsilon)
        /\ C35_AtMost(agent.epsilon, agent.epsilonStart)
        /\ C35_AtMost(agent'.epsilonMin, agent'.epsilon)
        /\ C35_AtMost(agent'.epsilon, agent'.epsilonStart)
        /\ EffectiveStep => C35_AtMost(agent'.epsilon, agent.epsilon) ]_vars

(* C35: for an agent built with epsilon >= epsilonMin, epsilon always lies
   between epsilonMin and the epsilon given at construction and no learning
   step increases it; for an agent built with epsilon < epsilonMin, the
   first learning step raises epsilon to epsilonMin, where every later
   learning step leaves it. Steps that are no learning steps leave epsilon
   alone. *)
C35_OnlyDecays ==
    /\ [](C35_AtMost(agent.epsilonMin, agent.epsilonStart) =>
            /\ C35_AtMost(agent.epsilonMin, agent.epsilon)
            /\ C35_AtMost(agent.epsilon, agent.epsilonStart))
    /\ [][ IF EffectiveStep
           THEN IF C35_AtMost(agent.epsilonMin, agent.epsilonStart)
                THEN C35_AtMost(agent'.epsilon, agent.epsilon)
                ELSE agent'.epsilon = agent.epsilonMin
           ELSE agent'.epsilon = agent.epsilon ]_vars

\* two learning steps into the decay: epsilon is below the epsilon given
\* at construction and has not reached epsilonMin
C35_Witness ==
    /\ call.name = "replay"
    /\ agent.trainingStep >= 2
    /\ agent.trainingStep < agent.epsilonDecaySteps
    /\ RLess(agent.epsilonMin, agent.epsilon)
    /\ RLess(agent.epsilon, agent.epsilonStart)

\* C36: feature extraction is seat-independent and deterministic. For
\* every state s and its seat-mirrored state s', extractFeatures(s) equals
\* extractFeatures(s') entry by entry, and two calls on equal states
\* return equal vectors of length 2N + 3, N the pits per player.
C36_SeatIndependent ==
    call.name = "extractFeatures" =>
        /\ call.result = call.mirrored
        /\ call.again = call.result
        /\ Len(call.result) = 2 * pitsPerPlayer + 3


\* C37: a load() that fails leaves the online network, the target network,
\* the hyperparameters and trainingStep of the agent as they were before the
\* call
C37_FailedLoadAtomic == [][call'.name = "loadFailed" => agent' = agent]_vars


\* C38: for a position of the game that is not over and a valid pit,
\* simulateMove returns the board, stores, currentPlayer and gameOver that
\* makeMove of that pit leaves in the engine
C38_SimulatesEngine ==
    call.name = "simulateMove" =>
        /\ call.result.board = board
        /\ call.result.stores = stores
        /\ call.result.currentPlayer = currentPlayer
        /\ call.result.gameOver = gameOver


\* C39: while AI play is enabled, the game is not over and player 1 is to
\* move, a makeAIMove call is scheduled or the toggleAI that will make it is
\* awaiting the model
C39_AIMovePending ==
    ui.aiEnabled /\ ~gameOver /\ currentPlayer = 1 =>
        ui.timers > 0 \/ ui.waiter = "toggleAI"

\* C40: the model-not-found alert with its switch to medium is shown only
\* when the model failed to load, never because loadModel() found another
\* load in flight
C40_DowngradeOnlyOnFailure == ui.alert \in {"none", "loadFailed"}

====
